---- MODULE Spec2Model ----
(***************************************************************************)
(* A model of todo_finder: the aggregation map (IssueMap), the patch       *)
(* computation against the tracker, the application of the patch           *)
(* (Finder::run / Finder::apply_patch), the candidate locator              *)
(* (FileSearcher::find) and the extraction pipeline                        *)
(* (IssueMap::from_files_in_directory) with the todo parsers of            *)
(* parser/source.rs.                                                       *)
(*                                                                         *)
(* Text is a sequence of one-character strings.  A Rust Option is a        *)
(* sequence of length at most one: None is <<>>, Some(x) is <<x>>.  A      *)
(* HashMap is a function on its key set; where the code iterates a         *)
(* HashMap or a HashSet, the iteration order is an input of the action.    *)
(***************************************************************************)
EXTENDS Integers, Sequences, FiniteSets, Bags, TLC

VARIABLES
    todos,           \* IssueMap<(), FileTodoLocation>.todos, the local map
    calls,           \* history: the add_parsed_todo calls made, in order
    listed,          \* history: the issues the tracker listed, in order
    remote_issues,   \* IssueMap<u64, GitHubTodoLocation>.todos
    patch,           \* Option<GitHubPatch>: the result of prepare_patch
    pc,              \* where github::run stands
    dry_run,         \* Finder.dry_run
    simulate_application,   \* Finder.simulate_application
    msgs,            \* the Messages sent on CHAN, in order
    ops,             \* the operations of the patch being applied, and how far each got
    requests,        \* history: the bag of requests sent to the tracker
    applied,         \* history: Some(the patch handed to apply_patch)
    files,           \* the files under the directory: path |-> contents
    rg_output,       \* the bytes collected from the locator runs so far
    possible_todos,  \* Vec<PossibleTodosInFile> still to be processed
    language_map,    \* HashMap<String, Vec<SupportedLanguage>>: extension |-> languages, in order
    attempts,        \* history: per processed candidate, the languages whose parse added an occurrence
    input,           \* the text handed to a parser
    cfg,             \* the TodoParserConfig of the parser
    result           \* Option<IResult>: what the parser returned

mapVars == <<todos, calls, listed, remote_issues, patch>>

runVars == <<pc, dry_run, simulate_application, msgs, ops, requests, applied>>

scanVars == <<files, rg_output, possible_todos, language_map, attempts>>

parseVars == <<input, cfg, result>>

vars == <<todos, calls, listed, remote_issues, patch,
          pc, dry_run, simulate_application, msgs, ops, requests, applied,
          files, rg_output, possible_todos, language_map, attempts, input, cfg, result>>

(***************************************************************************)
(* Generic helpers.                                                        *)
(***************************************************************************)
None == <<>>

Some(x) == <<x>>

Range(s) == {s[k] : k \in 1..Len(s)}

\* Vec::contains
Contains(s, x) == \E k \in 1..Len(s) : s[k] = x

\* the sequences that enumerate the finite set S once each: the possible
\* iteration orders of a HashMap or HashSet with these keys
Orders(S) ==
    {o \in [1..Cardinality(S) -> S] : \A a, b \in 1..Cardinality(S) : a # b => o[a] # o[b]}

\* the empty HashMap
EmptyMap == [k \in {} |-> 0]

\* HashMap::insert
Insert(m, k, v) == (k :> v) @@ m

(***************************************************************************)
(* Text.                                                                   *)
(***************************************************************************)
\* str::starts_with
StartsWith(i, p) == Len(p) <= Len(i) /\ SubSeq(i, 1, Len(p)) = p

\* the rest of i after its first n characters
Drop(i, n) == SubSeq(i, n + 1, Len(i))

\* [a, b, ...].concat()
RECURSIVE Concat(_)
Concat(parts) == IF parts = <<>> THEN <<>> ELSE Head(parts) \o Concat(Tail(parts))

\* [a, b, ...].join(sep)
RECURSIVE Join(_, _)
Join(parts, sep) ==
    IF parts = <<>> THEN <<>>
    ELSE IF Len(parts) = 1 THEN Head(parts)
    ELSE Head(parts) \o sep \o Join(Tail(parts), sep)

\* the pieces of i between the occurrences of the character c
RECURSIVE Split(_, _)
Split(i, c) ==
    IF \E k \in 1..Len(i) : i[k] = c
    THEN LET k == CHOOSE k \in 1..Len(i) : i[k] = c /\ \A j \in 1..(k - 1) : i[j] # c
         IN  <<SubSeq(i, 1, k - 1)>> \o Split(Drop(i, k), c)
    ELSE <<i>>

DigitChars == <<"0", "1", "2", "3", "4", "5", "6", "7", "8", "9">>

\* format!("{}", n) of an unsigned number
RECURSIVE Digits(_)
Digits(n) ==
    IF n < 10 THEN <<DigitChars[n + 1]>>
    ELSE Digits(n \div 10) \o <<DigitChars[(n % 10) + 1]>>

(***************************************************************************)
(* std::path::Path, as far as FileTodoLocation uses it.                    *)
(***************************************************************************)
\* Path::components: the pieces between separators; repeated separators and
\* "." pieces other than a leading one are dropped, a leading separator is
\* the root component
Components(path) ==
    LET pieces == Split(path, "/")
        Kept(k) == pieces[k] # <<>> /\ (pieces[k] # <<".">> \/ k = 1)
        idx == SelectSeq([k \in 1..Len(pieces) |-> k], Kept)
        root == IF path # <<>> /\ path[1] = "/" THEN << <<"/">> >> ELSE <<>>
    IN  root \o [k \in 1..Len(idx) |-> pieces[idx[k]]]

\* Path::strip_prefix: Some(the components after base), None when base is
\* not a prefix of path component by component
strip_prefix(path, base) ==
    LET pcs == Components(path)
        bcs == Components(base)
    IN  IF StartsWith(pcs, bcs) THEN Some(Drop(pcs, Len(bcs))) ELSE None

\* Path::display of a relative path
display(components) == Join(components, <<"/">>)

(***************************************************************************)
(* parser.rs: Issue, IssueMap.                                             *)
(***************************************************************************)
\* the unit external id of a local issue
Unit == 0

Issue_new(id, title) ==
    [head |-> [title |-> title, assignees |-> <<>>, external_id |-> id],
     body |-> <<>>]

add_parsed_todo_dup(m, todo, loc) ==
    LET title == todo.title
        issue == IF title \in DOMAIN m THEN m[title] ELSE Issue_new(Unit, title)
        assignees == IF todo.assignee # None
                     THEN Append(issue.head.assignees, todo.assignee[1])
                     ELSE issue.head.assignees
    IN  Insert(m, title,
               [head |-> [issue.head EXCEPT !.assignees = assignees],
                body |-> Append(issue.body, <<todo.desc_lines, loc>>)])

\* IssueMap::add_parsed_todo
add_parsed_todo(m, todo, loc) ==
    LET title == todo.title
        issue == IF title \in DOMAIN m THEN m[title] ELSE Issue_new(Unit, title)
        assignees == IF todo.assignee # None
                        /\ ~Contains(issue.head.assignees, todo.assignee[1])
                     THEN Append(issue.head.assignees, todo.assignee[1])
                     ELSE issue.head.assignees
    IN  Insert(m, title,
               [head |-> [issue.head EXCEPT !.assignees = assignees],
                body |-> Append(issue.body, <<todo.desc_lines, loc>>)])

\* IssueMap::add_issue; github_issue.body is None, or Some of the result of
\* issue::issue_body on the body text, itself None when the parse fails
add_issue(m, github_issue) ==
    IF github_issue.body # None /\ github_issue.body[1] # None
    THEN Insert(m, github_issue.title,
                [Issue_new(github_issue.number, github_issue.title)
                    EXCEPT !.body = github_issue.body[1][1]])
    ELSE m

\* the loop of prepare_patch over local.todos, in the iteration order given
RECURSIVE prepare_loop(_, _, _, _)
prepare_loop(remote, local, order, acc) ==
    IF order = <<>> THEN acc
    ELSE LET title == Head(order)
             local_issue == local[title]
         IN  IF title \in DOMAIN remote
             THEN prepare_loop(remote, local, Tail(order),
                    [acc EXCEPT
                        !.dont_delete = Append(@, remote[title].head.external_id),
                        !.edit = Insert(@, title,
                                    [head |-> remote[title].head,
                                     body |-> local_issue.body])])
             ELSE prepare_loop(remote, local, Tail(order),
                    [acc EXCEPT !.create = Insert(@, title, local_issue)])

prepare_patch_keep_all(remote, local, localOrder, remoteOrder) ==
    LET acc == prepare_loop(remote, local, localOrder,
                   [create |-> EmptyMap, edit |-> EmptyMap, dont_delete |-> <<>>])
        ids == [k \in 1..Len(remoteOrder) |-> remote[remoteOrder[k]].head.external_id]
    IN  [create |-> acc.create, edit |-> acc.edit, delete |-> <<>>]

\* IssueMap::prepare_patch
prepare_patch(remote, local, localOrder, remoteOrder) ==
    LET acc == prepare_loop(remote, local, localOrder,
                   [create |-> EmptyMap, edit |-> EmptyMap, dont_delete |-> <<>>])
        ids == [k \in 1..Len(remoteOrder) |-> remote[remoteOrder[k]].head.external_id]
        NotKept(id) == ~Contains(acc.dont_delete, id)
    IN  [create |-> acc.create, edit |-> acc.edit, delete |-> SelectSeq(ids, NotKept)]

(***************************************************************************)
(* parser.rs: rendering an issue body for the tracker.                     *)
(***************************************************************************)
GitHubUrl == <<"h", "t", "t", "p", "s", ":", "/", "/", "g", "i", "t", "h", "u", "b", ".", "c", "o", "m">>

Blob == <<"b", "l", "o", "b">>

\* FileTodoLocation::to_github_link: Some(link), None for Err(Prefix)
to_github_link(loc, cwd, owner, repo, checkout) ==
    LET relative == strip_prefix(loc.file, cwd) IN
    IF relative = None THEN None
    ELSE LET file_and_range ==
                 Concat(<<display(relative[1]),
                          <<"#", "L">> \o Digits(loc.src_span[1]),
                          IF loc.src_span[2] # None
                          THEN <<"-", "L">> \o Digits(loc.src_span[2][1])
                          ELSE <<>> >>)
         IN  Some(Join(<<GitHubUrl, owner, repo, Blob, checkout, file_and_range>>, <<"/">>))

\* IssueBody::to_github_string: Some(text), None when a link cannot be made
to_github_string(body, cwd, owner, repo, checkout) ==
    LET links == [k \in 1..Len(body) |-> to_github_link(body[k][2], cwd, owner, repo, checkout)]
    IN  IF \E k \in 1..Len(body) : links[k] = None THEN None
        ELSE Some(Join([k \in 1..Len(body) |->
                           Join(<<Join(body[k][1], <<"\n">>), links[k][1]>>, <<"\n">>)],
                       <<"\n">>))

(***************************************************************************)
(* Inputs of the aggregation map and of the patch computation.             *)
(***************************************************************************)
\* the number of add_parsed_todo calls followed when the map alone is checked
MaxCalls == 3

\* the number of local todos and of listed remote issues before a patch
MaxLocal == 2

MaxIssues == 2

TitleA == <<"A">>

TitleB == <<"B">>

TitleC == <<"C">>

Titles == {TitleA, TitleB, TitleC}

Assignees == {None, Some(<<"a">>), Some(<<"b">>)}

DescLines == {<<>>, << <<"d">> >>}

FileX == <<"x", ".", "r", "s">>

FileY == <<"y", ".", "r", "s">>

\* FileTodoLocation
FileTodoLocation(file, start, end) == [file |-> file, src_span |-> <<start, end>>]

ParsedTodo(title, assignee, desc_lines) ==
    [title |-> title, assignee |-> assignee, desc_lines |-> desc_lines]

\* the remote bodies: none, one that issue_body rejects, one it parses to
\* an empty occurrence list
RemoteBodies == {None, Some(None), Some(Some(<<>>))}

\* nothing scanned: no file, no locator output, no candidate
ScanIdle ==
    /\ files = <<>>
    /\ rg_output = <<>>
    /\ possible_todos = <<>>
    /\ language_map = <<>>
    /\ attempts = <<>>

\* no parser applied
ParseIdle ==
    /\ input = <<>>
    /\ cfg = [singles |-> <<>>, multis |-> <<>>, borders |-> <<>>]
    /\ result = <<>>

InitMap ==
    /\ todos = EmptyMap
    /\ calls = <<>>
    /\ listed = <<>>
    /\ remote_issues = EmptyMap
    /\ patch = None
    /\ pc = "idle"
    /\ dry_run = FALSE
    /\ simulate_application = FALSE
    /\ msgs = <<>>
    /\ ops = <<>>
    /\ requests = EmptyBag
    /\ applied = None
    /\ ScanIdle /\ ParseIdle

\* one call of add_parsed_todo, as made by from_files_in_directory
AddParsedTodo ==
    /\ Len(calls) < MaxCalls
    /\ \E title \in {TitleA, TitleB}, assignee \in Assignees, desc \in DescLines,
          file \in {FileX, FileY} :
         LET todo == ParsedTodo(title, assignee, desc)
             loc == FileTodoLocation(file, Len(calls) + 1, None)
         IN  /\ todos' = add_parsed_todo(todos, todo, loc)
             /\ calls' = Append(calls, [todo |-> todo, loc |-> loc])
    /\ UNCHANGED <<listed, remote_issues, patch>>
    /\ UNCHANGED runVars
    /\ UNCHANGED <<scanVars, parseVars>>

NextIssueMap == AddParsedTodo

SpecIssueMap == InitMap /\ [][NextIssueMap]_vars

\* one local todo found before the patch is prepared
AddLocal ==
    /\ patch = None
    /\ Len(calls) < MaxLocal
    /\ \E title \in Titles, assignee \in {None, Some(<<"a">>)} :
         LET todo == ParsedTodo(title, assignee, <<>>)
             loc == FileTodoLocation(FileX, Len(calls) + 1, None)
         IN  /\ todos' = add_parsed_todo(todos, todo, loc)
             /\ calls' = Append(calls, [todo |-> todo, loc |-> loc])
    /\ UNCHANGED <<listed, remote_issues, patch>>
    /\ UNCHANGED runVars
    /\ UNCHANGED <<scanVars, parseVars>>

\* get_github_issues: the next issue of the tracker's listing; the tracker
\* numbers its issues, so that no two listed issues share a number
AddIssue ==
    /\ patch = None
    /\ Len(listed) < MaxIssues
    /\ \E title \in Titles, body \in RemoteBodies :
         LET github_issue == [number |-> Len(listed) + 1, title |-> title, body |-> body]
         IN  /\ remote_issues' = add_issue(remote_issues, github_issue)
             /\ listed' = Append(listed, github_issue)
    /\ UNCHANGED <<todos, calls, patch>>
    /\ UNCHANGED runVars
    /\ UNCHANGED <<scanVars, parseVars>>

\* Finder::run: let patch = remote_issues.prepare_patch(local_issues)
PreparePatch ==
    /\ patch = None
    /\ \E localOrder \in Orders(DOMAIN todos), remoteOrder \in Orders(DOMAIN remote_issues) :
         patch' = Some(prepare_patch(remote_issues, todos, localOrder, remoteOrder))
    /\ UNCHANGED <<todos, calls, listed, remote_issues>>
    /\ UNCHANGED runVars
    /\ UNCHANGED <<scanVars, parseVars>>

NextPatch == AddLocal \/ AddIssue \/ PreparePatch

SpecPatch == InitMap /\ [][NextPatch]_vars

(***************************************************************************)
(* C1: prepare_patch partitions the work by title.                         *)
(***************************************************************************)
RemoteIdsOf(titles) == {remote_issues[t].head.external_id : t \in titles}

NoDuplicates(s) == \A a, b \in 1..Len(s) : a # b => s[a] # s[b]

\* C1: create holds exactly the local issues whose title is not a remote
\* key, edit exactly the local issues whose title is a remote key (with the
\* remote issue's id and the local body), delete exactly the ids of the
\* remote issues whose title is not a local key; for remote {1:A, 2:B} and
\* local {A, C} the patch is create = {C}, edit = {(1, A)}, delete = <<2>>.
C1_PatchPartitions ==
    patch # None =>
        LET p == patch[1] IN
        /\ DOMAIN p.create = DOMAIN todos \ DOMAIN remote_issues
        /\ \A t \in DOMAIN p.create : p.create[t] = todos[t]
        /\ DOMAIN p.edit = DOMAIN todos \cap DOMAIN remote_issues
        /\ \A t \in DOMAIN p.edit :
             /\ p.edit[t].head.title = t
             /\ p.edit[t].head.external_id = remote_issues[t].head.external_id
             /\ p.edit[t].body = todos[t].body
        /\ Range(p.delete) = RemoteIdsOf(DOMAIN remote_issues \ DOMAIN todos)
        /\ NoDuplicates(p.delete)
        /\ (/\ DOMAIN remote_issues = {TitleA, TitleB}
            /\ remote_issues[TitleA].head.external_id = 1
            /\ remote_issues[TitleB].head.external_id = 2
            /\ DOMAIN todos = {TitleA, TitleC})
           => /\ DOMAIN p.create = {TitleC}
              /\ DOMAIN p.edit = {TitleA}
              /\ p.edit[TitleA].head.external_id = 1
              /\ p.delete = <<2>>

\* the patch of remote {1:A, 2:B} and local {A, C} has been prepared
C1_Witness ==
    /\ patch # None
    /\ DOMAIN remote_issues = {TitleA, TitleB}
    /\ remote_issues[TitleA].head.external_id = 1
    /\ remote_issues[TitleB].head.external_id = 2
    /\ DOMAIN todos = {TitleA, TitleC}

(***************************************************************************)
(* C2: the aggregation map after any sequence of add_parsed_todo calls.    *)
(***************************************************************************)
CallsFor(t) == SelectSeq(calls, LAMBDA c : c.todo.title = t)

\* the place of the first call for title t that names assignee a
FirstCall(t, a) ==
    CHOOSE k \in 1..Len(calls) :
        /\ calls[k].todo.title = t /\ calls[k].todo.assignee = Some(a)
        /\ \A j \in 1..(k - 1) :
             ~(calls[j].todo.title = t /\ calls[j].todo.assignee = Some(a))

\* C2: one Issue per distinct title; its body lists every occurrence added
\* under the title in call order; its assignees are the non-absent assignees
\* seen for the title, without duplicates, in first-seen order.
C2_OneIssuePerTitle ==
    /\ DOMAIN todos = {calls[k].todo.title : k \in 1..Len(calls)}
    /\ \A t \in DOMAIN todos :
         LET cs == CallsFor(t)
             as == todos[t].head.assignees
         IN  /\ todos[t].head.title = t
             /\ todos[t].body = [k \in 1..Len(cs) |-> <<cs[k].todo.desc_lines, cs[k].loc>>]
             /\ NoDuplicates(as)
             /\ Range(as) = {cs[k].todo.assignee[1] :
                               k \in {j \in 1..Len(cs) : cs[j].todo.assignee # None}}
             /\ \A a, b \in 1..Len(as) :
                  a < b => FirstCall(t, as[a]) < FirstCall(t, as[b])

\* one title was found in two files and one of its assignees was named twice
C2_Witness ==
    \E t \in DOMAIN todos :
        /\ Len(todos[t].body) = 3
        /\ todos[t].body[1][2].file # todos[t].body[2][2].file
        /\ Len(todos[t].head.assignees) = 2
        /\ Len(SelectSeq(CallsFor(t), LAMBDA c : c.todo.assignee # None)) = 3

(***************************************************************************)
(* github.rs: github::run, Finder::run, Finder::apply_patch.               *)
(***************************************************************************)
\* buffer_unordered(3)
BufferSize == 3

\* the project root, the owner, the repository and the checkout of a run
Cwd == <<"/", "r">>

Owner == <<"o">>

Repo == <<"p">>

Checkout == <<"c">>

TitleD == <<"D">>

TitleE == <<"E">>

FileUnderRoot == <<"/", "r", "/", "x", ".", "r", "s">>

FileOutsideRoot == <<"/", "s", "/", "x", ".", "r", "s">>

\* the map built by add_parsed_todo from a list of (title, file) occurrences
RECURSIVE LocalOf(_, _)
LocalOf(found, m) ==
    IF found = <<>> THEN m
    ELSE LocalOf(Tail(found),
                 add_parsed_todo(m, ParsedTodo(Head(found)[1], None, <<>>),
                                 FileTodoLocation(Head(found)[2], 1, None)))

\* the map built by add_issue from a listing
RECURSIVE RemoteOf(_, _)
RemoteOf(listing, m) ==
    IF listing = <<>> THEN m ELSE RemoteOf(Tail(listing), add_issue(m, Head(listing)))

\* the results of the local extraction that a run is followed with: each a
\* list of (title, file) occurrences
RunLocals ==
    {<<>>,
     << <<TitleA, FileUnderRoot>> >>,
     << <<TitleA, FileOutsideRoot>>, <<TitleB, FileUnderRoot>> >>,
     << <<TitleA, FileUnderRoot>>, <<TitleB, FileOutsideRoot>> >>,
     << <<TitleA, FileUnderRoot>>, <<TitleB, FileUnderRoot>>, <<TitleC, FileUnderRoot>> >>}

GitHubIssue(number, title) == [number |-> number, title |-> title, body |-> Some(Some(<<>>))]

\* the listings of the tracker that a run is followed with
RunListings ==
    {<<>>,
     <<GitHubIssue(1, TitleA)>>,
     <<GitHubIssue(1, TitleA), GitHubIssue(2, TitleD)>>,
     <<GitHubIssue(1, TitleA), GitHubIssue(2, TitleD), GitHubIssue(3, TitleE)>>}

Msg(type) == [type |-> type]

ErrorMsg(e) == [type |-> "Error", error |-> e]

\* one request to the tracker
Request(method, title, id) == SetToBag({[method |-> method, title |-> title, id |-> id]})

Progress(type, done, total) == [type |-> type, done |-> done, total |-> total]

\* one future of the application: a create (by title), an edit (title and
\* tracker id) or a delete (tracker id), the i of its enumerate(), its state
Op(kind, title, id, i) ==
    [kind |-> kind, title |-> title, id |-> id, i |-> i, state |-> "lazy"]

\* the futures being polled: started and not complete
InFlight == {i \in 1..Len(ops) : ops[i].state \in {"get", "send"}}

Complete(op) == op.state \in {"ok", "err"}

InitRun ==
    /\ todos = EmptyMap
    /\ calls = <<>>
    /\ listed = <<>>
    /\ remote_issues = EmptyMap
    /\ patch = None
    /\ pc = "new"
    /\ dry_run \in BOOLEAN
    /\ simulate_application \in BOOLEAN
    /\ msgs = <<>>
    /\ ops = <<>>
    /\ requests = EmptyBag
    /\ applied = None
    /\ ScanIdle /\ ParseIdle

\* github::run: Finder::new, then finder.run() or Message::Error
FinderNew ==
    /\ pc = "new"
    /\ \E ok \in BOOLEAN :
         IF ok THEN pc' = "origin" /\ msgs' = msgs
         ELSE pc' = "done" /\ msgs' = Append(msgs, ErrorMsg("Octocrab"))
    /\ UNCHANGED <<mapVars, dry_run, simulate_application, ops, requests, applied>>
    /\ UNCHANGED <<scanVars, parseVars>>

\* utils::git_origin
GitOrigin ==
    /\ pc = "origin"
    /\ \E ok \in BOOLEAN :
         IF ok THEN pc' = "owner_repo" /\ msgs' = msgs \o <<Msg("GettingOrigin"), Msg("GotOrigin")>>
         ELSE pc' = "done" /\ msgs' = msgs \o <<Msg("GettingOrigin"), ErrorMsg("Command")>>
    /\ UNCHANGED <<mapVars, dry_run, simulate_application, ops, requests, applied>>
    /\ UNCHANGED <<scanVars, parseVars>>

\* parse_owner_and_repo_from_config(&origin)
OwnerRepo ==
    /\ pc = "owner_repo"
    /\ \E ok \in BOOLEAN :
         IF ok THEN pc' = "hash" /\ msgs' = msgs \o <<Msg("GettingOwnerRepo"), Msg("GotOwnerRepo")>>
         ELSE pc' = "done" /\ msgs' = msgs \o <<Msg("GettingOwnerRepo"), ErrorMsg("ParseOwnerRepo")>>
    /\ UNCHANGED <<mapVars, dry_run, simulate_application, ops, requests, applied>>
    /\ UNCHANGED <<scanVars, parseVars>>

\* utils::git_hash
GitHash ==
    /\ pc = "hash"
    /\ \E ok \in BOOLEAN :
         IF ok THEN pc' = "extract" /\ msgs' = msgs \o <<Msg("GettingCheckoutHash"), Msg("GotCheckoutHash")>>
         ELSE pc' = "done" /\ msgs' = msgs \o <<Msg("GettingCheckoutHash"), ErrorMsg("Command")>>
    /\ UNCHANGED <<mapVars, dry_run, simulate_application, ops, requests, applied>>
    /\ UNCHANGED <<scanVars, parseVars>>

\* IssueMap::from_files_in_directory(&self.cwd, &self.excludes).await?
Extract ==
    /\ pc = "extract"
    /\ \/ \E found \in RunLocals :
            /\ todos' = LocalOf(found, EmptyMap)
            /\ pc' = "issues"
            /\ msgs' = msgs \o <<Msg("FindingTodosInSourceCode"),
                                 [type |-> "FoundTodos", distinct |-> Len(found), total |-> Len(found)]>>
       \/ /\ todos' = todos
          /\ pc' = "done"
          /\ msgs' = msgs \o <<Msg("FindingTodosInSourceCode"), ErrorMsg("Io")>>
    /\ UNCHANGED <<calls, listed, remote_issues, patch,
                   dry_run, simulate_application, ops, requests, applied>>
    /\ UNCHANGED <<scanVars, parseVars>>

\* a get_github_issues whose error does not return from run: the run goes
\* on with no issue listed
GetGithubIssuesErrorIgnored ==
    /\ pc = "issues"
    /\ requests' = requests (+) Request("list", <<>>, 0)
    /\ \/ \E listing \in RunListings :
            /\ listed' = listing
            /\ remote_issues' = RemoteOf(listing, EmptyMap)
            /\ pc' = "prepare"
            /\ msgs' = msgs \o <<Msg("GettingIssues"),
                                 [type |-> "GotIssues",
                                  count |-> Cardinality(DOMAIN RemoteOf(listing, EmptyMap))]>>
       \/ /\ UNCHANGED <<listed, remote_issues>>
          /\ pc' = "prepare"
          /\ msgs' = msgs \o <<Msg("GettingIssues"), ErrorMsg("Octocrab")>>
    /\ UNCHANGED <<todos, calls, patch, dry_run, simulate_application, ops, applied>>
    /\ UNCHANGED <<scanVars, parseVars>>

\* self.get_github_issues(owner, repo).await?
GetGithubIssues ==
    /\ pc = "issues"
    /\ requests' = requests (+) Request("list", <<>>, 0)
    /\ \/ \E listing \in RunListings :
            /\ listed' = listing
            /\ remote_issues' = RemoteOf(listing, EmptyMap)
            /\ pc' = "prepare"
            /\ msgs' = msgs \o <<Msg("GettingIssues"),
                                 [type |-> "GotIssues",
                                  count |-> Cardinality(DOMAIN RemoteOf(listing, EmptyMap))]>>
       \/ /\ UNCHANGED <<listed, remote_issues>>
          /\ pc' = "done"
          /\ msgs' = msgs \o <<Msg("GettingIssues"), ErrorMsg("Octocrab")>>
    /\ UNCHANGED <<todos, calls, patch, dry_run, simulate_application, ops, applied>>
    /\ UNCHANGED <<scanVars, parseVars>>

PatchCounts(p) ==
    [create |-> Cardinality(DOMAIN p.create),
     update |-> Cardinality(DOMAIN p.edit),
     delete |-> Len(p.delete)]

\* let patch = remote_issues.prepare_patch(local_issues); PreparedPatch
RunPreparePatch ==
    /\ pc = "prepare"
    /\ \E localOrder \in Orders(DOMAIN todos), remoteOrder \in Orders(DOMAIN remote_issues) :
         LET p == prepare_patch(remote_issues, todos, localOrder, remoteOrder) IN
         /\ patch' = Some(p)
         /\ msgs' = Append(msgs, [type |-> "PreparedPatch", counts |-> PatchCounts(p),
                                  dry_run |-> dry_run])
    /\ pc' = "branch"
    /\ UNCHANGED <<todos, calls, listed, remote_issues,
                   dry_run, simulate_application, ops, requests, applied>>
    /\ UNCHANGED <<scanVars, parseVars>>

BranchAlwaysApply ==
    IF dry_run /\ simulate_application THEN "simulate" ELSE "apply"

\* if self.dry_run && self.simulate_application {..} else if !self.dry_run {..}
Branch ==
    IF dry_run /\ simulate_application THEN "simulate"
    ELSE IF ~dry_run THEN "apply"
    ELSE "skip"

\* the simulated futures: one per n in 1..=count, sleeping n seconds
SimulatedOps(kind, count) ==
    [n \in 1..count |-> [Op(kind, <<>>, 0, n) EXCEPT !.state = "sleep"]]

\* the simulated application of a dry run
StartSimulation ==
    /\ pc = "branch"
    /\ Branch = "simulate"
    /\ LET c == PatchCounts(patch[1]) IN
       /\ msgs' = Append(msgs, [type |-> "ApplyingPatch", counts |-> c])
       /\ ops' = SimulatedOps("create", c.create) \o SimulatedOps("edit", c.update)
                    \o SimulatedOps("delete", c.delete)
    /\ pc' = "simulate"
    /\ UNCHANGED <<mapVars, dry_run, simulate_application, requests, applied>>
    /\ UNCHANGED <<scanVars, parseVars>>

AppliedMsg(kind) ==
    CASE kind = "create" -> "AppliedPatchCreate"
      [] kind = "edit" -> "AppliedPatchUpdate"
      [] kind = "delete" -> "AppliedPatchDelete"

Total(kind) ==
    LET c == PatchCounts(patch[1]) IN
    CASE kind = "create" -> c.create [] kind = "edit" -> c.update [] kind = "delete" -> c.delete

\* a sleep of the simulation ends: the shortest sleeps end first
SimulateTick ==
    /\ pc = "simulate"
    /\ \E i \in 1..Len(ops) :
         /\ ops[i].state = "sleep"
         /\ \A j \in 1..Len(ops) : ops[j].state = "sleep" => ops[i].i <= ops[j].i
         /\ ops' = [ops EXCEPT ![i].state = "ok"]
         /\ msgs' = Append(msgs, Progress(AppliedMsg(ops[i].kind), ops[i].i, Total(ops[i].kind)))
    /\ UNCHANGED <<mapVars, pc, dry_run, simulate_application, requests, applied>>
    /\ UNCHANGED <<scanVars, parseVars>>

\* while rando_awaits.next().await.is_some() {}; AppliedPatch; Ok(()); Goodbye
SimulateDone ==
    /\ pc = "simulate"
    /\ \A i \in 1..Len(ops) : ops[i].state = "ok"
    /\ msgs' = msgs \o <<Msg("AppliedPatch"), Msg("Goodbye")>>
    /\ pc' = "done"
    /\ UNCHANGED <<mapVars, dry_run, simulate_application, ops, requests, applied>>
    /\ UNCHANGED <<scanVars, parseVars>>

\* a dry run without simulation: Ok(()); Goodbye
SkipApply ==
    /\ pc = "branch"
    /\ Branch = "skip"
    /\ msgs' = Append(msgs, Msg("Goodbye"))
    /\ pc' = "done"
    /\ UNCHANGED <<mapVars, dry_run, simulate_application, ops, requests, applied>>
    /\ UNCHANGED <<scanVars, parseVars>>

Renders(body) == to_github_string(body, Cwd, Owner, Repo, Checkout) # None

\* apply_patch up to its first await: ApplyingPatch, then the vector of
\* futures: the creates, the edits (each body rendered here, an Err
\* returning from apply_patch), the deletes
ApplyPatchStart ==
    /\ pc = "branch"
    /\ Branch = "apply"
    /\ applied' = patch
    /\ LET p == patch[1] IN
       \E co \in Orders(DOMAIN p.create), eo \in Orders(DOMAIN p.edit) :
         LET creates == [k \in 1..Len(co) |-> Op("create", co[k], 0, k - 1)]
             edits == [k \in 1..Len(eo) |-> Op("edit", eo[k], p.edit[eo[k]].head.external_id, k - 1)]
             deletes == [k \in 1..Len(p.delete) |-> Op("delete", <<>>, p.delete[k], k - 1)]
         IN  /\ ops' = creates \o edits \o deletes
             /\ IF \E t \in DOMAIN p.edit : ~Renders(p.edit[t].body)
                THEN /\ msgs' = msgs \o <<[type |-> "ApplyingPatch", counts |-> PatchCounts(p)],
                                          ErrorMsg("Prefix")>>
                     /\ pc' = "done"
                ELSE /\ msgs' = Append(msgs, [type |-> "ApplyingPatch", counts |-> PatchCounts(p)])
                     /\ pc' = "apply"
    /\ UNCHANGED <<mapVars, dry_run, simulate_application, requests>>
    /\ UNCHANGED <<scanVars, parseVars>>

CanStartAlways == TRUE

\* buffer_unordered(3): another future is taken while fewer than 3 are held
CanStart == Cardinality(InFlight) < BufferSize

\* the stream polls the next future of the vector for the first time: it
\* runs to its first await
StartOp ==
    /\ pc = "apply"
    /\ CanStart
    /\ \E i \in 1..Len(ops) :
         /\ ops[i].state = "lazy"
         /\ \A j \in 1..(i - 1) : ops[j].state # "lazy"
         /\ CASE ops[i].kind = "create" ->
                   IF Renders(patch[1].create[ops[i].title].body)
                   THEN /\ ops' = [ops EXCEPT ![i].state = "send"]
                        /\ requests' = requests (+) Request("create", ops[i].title, 0)
                   ELSE /\ ops' = [ops EXCEPT ![i].state = "err"]
                        /\ requests' = requests
              [] ops[i].kind = "edit" ->
                   /\ ops' = [ops EXCEPT ![i].state = "get"]
                   /\ requests' = requests (+) Request("get", <<>>, ops[i].id)
              [] ops[i].kind = "delete" ->
                   /\ ops' = [ops EXCEPT ![i].state = "send"]
                   /\ requests' = requests (+) Request("close", <<>>, ops[i].id)
    /\ UNCHANGED <<mapVars, pc, dry_run, simulate_application, msgs, applied>>
    /\ UNCHANGED <<scanVars, parseVars>>

\* the tracker answers the get of an edit: on Ok the update is sent
RespondGet ==
    /\ pc = "apply"
    /\ \E i \in 1..Len(ops), ok \in BOOLEAN :
         /\ ops[i].state = "get"
         /\ IF ok
            THEN /\ ops' = [ops EXCEPT ![i].state = "send"]
                 /\ requests' = requests (+) Request("update", ops[i].title, ops[i].id)
            ELSE /\ ops' = [ops EXCEPT ![i].state = "err"]
                 /\ requests' = requests
    /\ UNCHANGED <<mapVars, pc, dry_run, simulate_application, msgs, applied>>
    /\ UNCHANGED <<scanVars, parseVars>>

\* the tracker answers a create, an update or a close: on Ok the future
\* sends its AppliedPatch* message; its Result is dropped by the loop
RespondSend ==
    /\ pc = "apply"
    /\ \E i \in 1..Len(ops), ok \in BOOLEAN :
         /\ ops[i].state = "send"
         /\ IF ok
            THEN /\ ops' = [ops EXCEPT ![i].state = "ok"]
                 /\ msgs' = Append(msgs, Progress(AppliedMsg(ops[i].kind), ops[i].i, Total(ops[i].kind)))
            ELSE /\ ops' = [ops EXCEPT ![i].state = "err"]
                 /\ msgs' = msgs
    /\ UNCHANGED <<mapVars, pc, dry_run, simulate_application, requests, applied>>
    /\ UNCHANGED <<scanVars, parseVars>>

\* while issue_stream.next().await.is_some() {}; AppliedPatch; Ok(()); Goodbye
ApplyDone ==
    /\ pc = "apply"
    /\ \A i \in 1..Len(ops) : Complete(ops[i])
    /\ msgs' = msgs \o <<Msg("AppliedPatch"), Msg("Goodbye")>>
    /\ pc' = "done"
    /\ UNCHANGED <<mapVars, dry_run, simulate_application, ops, requests, applied>>
    /\ UNCHANGED <<scanVars, parseVars>>

\* main: the task of github::run has finished, with Goodbye or with
\* Message::Error as its last message; message_loop returns and main
\* returns (), the process exits with status 0
MainReturns ==
    /\ pc = "done"
    /\ pc' = "exit(0)"
    /\ UNCHANGED <<mapVars, dry_run, simulate_application, msgs, ops, requests, applied>>
    /\ UNCHANGED <<scanVars, parseVars>>

NextRun ==
    \/ FinderNew \/ GitOrigin \/ OwnerRepo \/ GitHash \/ Extract \/ GetGithubIssues
    \/ RunPreparePatch \/ StartSimulation \/ SimulateTick \/ SimulateDone \/ SkipApply
    \/ ApplyPatchStart \/ StartOp \/ RespondGet \/ RespondSend \/ ApplyDone
    \/ MainReturns

SpecRun == InitRun /\ [][NextRun]_vars

(***************************************************************************)
(* C6 - C9: Finder::run and Finder::apply_patch.                           *)
(***************************************************************************)
WriteMethods == {"create", "update", "close"}

Sent(methods) == {r \in BagToSet(requests) : r.method \in methods}

\* C6: with dry_run set, run sends the tracker no create, update or close
\* request, whatever simulate_application is, and its only request is the
\* listing; with dry_run not set, the prepared patch is handed to apply_patch.
C6_DryRunSendsNothing ==
    /\ dry_run => /\ applied = None
                  /\ Sent(WriteMethods) = {}
                  /\ BagToSet(requests) \subseteq {[method |-> "list", title |-> <<>>, id |-> 0]}
    /\ (~dry_run /\ patch # None /\ pc # "branch") => applied = patch

\* a dry run, simulated, has ended on a patch with a create, an edit and a delete
C6_Witness ==
    /\ dry_run /\ simulate_application
    /\ pc = "done"
    /\ patch # None
    /\ DOMAIN patch[1].create # {} /\ DOMAIN patch[1].edit # {} /\ patch[1].delete # <<>>
    /\ \A i \in 1..Len(ops) : ops[i].state = "ok"

OwnBodyRenders(op) ==
    CASE op.kind = "create" -> Renders(patch[1].create[op.title].body)
      [] op.kind = "edit" -> Renders(patch[1].edit[op.title].body)
      [] op.kind = "delete" -> TRUE

C8_FailuresAreReported ==
    (pc = "done" /\ \E i \in 1..Len(ops) : ops[i].state = "err") =>
        \E k \in 1..Len(msgs) : msgs[k].type = "Error"

\* C9: at most 3 tracker operations, creates, edits and deletes together,
\* are in flight at any time while apply_patch runs.
C9_AtMostThreeInFlight == Cardinality(InFlight) <= 3

\* a create, an edit and a delete are in flight together while another
\* operation waits for a place
C9_Witness ==
    /\ Cardinality(InFlight) = 3
    /\ {ops[i].kind : i \in InFlight} = {"create", "edit", "delete"}
    /\ \E i \in 1..Len(ops) : ops[i].state = "lazy"

(***************************************************************************)
(* nom and str primitives over text.  A parser result (IResult) is         *)
(* Err, or Ok(rest, val) with the input left and the value produced.       *)
(***************************************************************************)
Err == [ok |-> FALSE]

Ok(rest, val) == [ok |-> TRUE, rest |-> rest, val |-> val]

\* the number of leading characters of i that are in the set S
TakeWhileLen(i, S) ==
    LET stop == {k \in 1..Len(i) : i[k] \notin S}
    IN  IF stop = {} THEN Len(i) ELSE (CHOOSE k \in stop : \A j \in stop : k <= j) - 1

\* the number of leading characters of i that are not in the set S
TakeTillLen(i, S) ==
    LET stop == {k \in 1..Len(i) : i[k] \in S}
    IN  IF stop = {} THEN Len(i) ELSE (CHOOSE k \in stop : \A j \in stop : k <= j) - 1

\* the number of trailing characters of i that are in the set S
TakeWhileBackLen(i, S) ==
    LET stop == {k \in 1..Len(i) : i[k] \notin S}
    IN  IF stop = {} THEN Len(i) ELSE Len(i) - (CHOOSE k \in stop : \A j \in stop : k >= j)

EndsWith(i, p) == Len(p) <= Len(i) /\ SubSeq(i, Len(i) - Len(p) + 1, Len(i)) = p

\* the first n characters of i
Take(i, n) == SubSeq(i, 1, n)

\* character::space0 matches spaces and tabs
SpaceChars == {" ", "\t"}

\* char::is_whitespace, as far as the texts here go
WhiteSpace == {" ", "\t", "\n", "\r"}

\* character::space0: the input left
space0(i) == Drop(i, TakeWhileLen(i, SpaceChars))

trim_start(i) == Drop(i, TakeWhileLen(i, WhiteSpace))

trim_end(i) == Take(i, Len(i) - TakeWhileBackLen(i, WhiteSpace))

trim(i) == trim_end(trim_start(i))

\* str::trim_start_matches(pat): pat removed from the front as often as it is there
RECURSIVE trim_start_matches(_, _)
trim_start_matches(i, pat) ==
    IF pat # <<>> /\ StartsWith(i, pat) THEN trim_start_matches(Drop(i, Len(pat)), pat) ELSE i

\* str::trim_end_matches(pat): pat removed from the back as often as it is there
RECURSIVE trim_end_matches(_, _)
trim_end_matches(i, pat) ==
    IF pat # <<>> /\ EndsWith(i, pat) THEN trim_end_matches(Take(i, Len(i) - Len(pat)), pat) ELSE i

\* character::line_ending: the length of the line ending i starts with, 0 for none
LineEndingLen(i) ==
    IF StartsWith(i, <<"\n">>) THEN 1
    ELSE IF StartsWith(i, <<"\r", "\n">>) THEN 2
    ELSE 0

\* take_to_eol: a whole line, its ending eaten and not returned
take_to_eol(i) ==
    LET n == TakeTillLen(i, {"\r", "\n"})
        j == Drop(i, n)
    IN  Ok(Drop(j, LineEndingLen(j)), Take(i, n))

\* str::lines: split at \n, a \r before it dropped, no last empty line
RECURSIVE lines(_)
lines(i) ==
    IF i = <<>> THEN <<>>
    ELSE LET n == TakeTillLen(i, {"\n"})
             ln == Take(i, n)
             line == IF EndsWith(ln, <<"\r">>) /\ n < Len(i) THEN Take(ln, n - 1) ELSE ln
         IN  <<line>> \o lines(Drop(i, n + 1))

\* bytes::take_until(pat): the position before the first occurrence of pat, -1 for none
FindFirst(i, pat) ==
    LET at == {k \in 0..(Len(i) - Len(pat)) : SubSeq(i, k + 1, k + Len(pat)) = pat}
    IN  IF at = {} THEN -1 ELSE CHOOSE k \in at : \A j \in at : k <= j

(***************************************************************************)
(* parser/source.rs: the todo parsers.  Try is the `?` of the source: the  *)
(* rest of the function goes on with an Ok, an Err is returned as it is.   *)
(***************************************************************************)
Try(r, Continue(_)) == IF r.ok THEN Continue(r) ELSE Err

\* let v = ...; the rest of the function
Let(v, Continue(_)) == Continue(v)

\* combinator::opt(char(c)): the input left
opt_char(c, i) == IF StartsWith(i, <<c>>) THEN Tail(i) ELSE i

\* the borders loop of comment_start: the first border found is eaten, once
RECURSIVE eat_borders(_, _)
eat_borders(borders, i) ==
    IF borders = <<>> THEN i
    ELSE IF StartsWith(i, Head(borders)) THEN Drop(i, Len(Head(borders)))
    ELSE eat_borders(Tail(borders), i)

comment_start(borders, prefix, i) ==
    Let(space0(i), LAMBDA i1 :
        IF ~StartsWith(i1, prefix) THEN Err
        ELSE Ok(space0(eat_borders(borders, space0(Drop(i1, Len(prefix))))), Unit))

assignee(i) ==
    IF ~StartsWith(i, <<"(">>) THEN Err
    ELSE Let(space0(Tail(i)), LAMBDA i1 :
         Let(TakeTillLen(i1, {"\r", "\n", " ", ")"}), LAMBDA n :
             IF StartsWith(Drop(i1, n), <<")">>) THEN Ok(Drop(i1, n + 1), Take(i1, n)) ELSE Err))

TAG_PATTERNS == <<<<"T", "O", "D", "O">>, <<"F", "I", "X", "M", "E">>, <<"@", "t", "o", "d", "o">>, <<"t", "o", "d", "o", "!">>>>

\* Option<TodoTag>
NoTag == [kind |-> "None", name |-> <<>>]

Standard(name) == [kind |-> "Standard", name |-> name]

RustMacro == [kind |-> "RustMacro", name |-> <<>>]

\* branch::alt of the four tags: the position of the first that matches, 0 for none
alt_tags(i) ==
    IF \E k \in 1..Len(TAG_PATTERNS) : StartsWith(i, TAG_PATTERNS[k])
    THEN CHOOSE k \in 1..Len(TAG_PATTERNS) :
             /\ StartsWith(i, TAG_PATTERNS[k])
             /\ \A j \in 1..(k - 1) : ~StartsWith(i, TAG_PATTERNS[j])
    ELSE 0

\* todo_tag after a standard tag: the name, the colon, the spaces
tag_name(i) ==
    Let(assignee(i), LAMBDA may_name :
        Ok(space0(opt_char(":", space0(IF may_name.ok THEN may_name.rest ELSE i))),
           IF may_name.ok THEN Standard(may_name.val) ELSE NoTag))

todo_tag(i) ==
    Let(space0(i), LAMBDA i1 :
    Let(alt_tags(i1), LAMBDA k :
        IF k = 0 THEN Err
        ELSE IF k = 4 THEN Ok(Drop(i1, Len(TAG_PATTERNS[k])), RustMacro)
        ELSE tag_name(space0(Drop(i1, Len(TAG_PATTERNS[k]))))))

Terminators == {".", "?", "!"}

\* a sentence that ends at its first run of terminators whatever follows
sentence_at_first_terminator(i) ==
    Let(TakeTillLen(i, Terminators), LAMBDA sentence :
    Let(sentence + TakeWhileLen(Drop(i, sentence), Terminators), LAMBDA n :
        Ok(trim_start(Drop(i, n)), Take(i, n))))

\* the loop of sentence_and_terminator: the length n of the sentence
RECURSIVE eating_sentences(_, _)
eating_sentences(ii, n) ==
    Let(TakeTillLen(ii, Terminators), LAMBDA sentence :
    Let(TakeWhileLen(Drop(ii, sentence), Terminators), LAMBDA terminators :
    Let(Drop(ii, sentence + terminators), LAMBDA j :
        IF StartsWith(j, <<" ">>) \/ j = <<>> THEN n + sentence + terminators
        ELSE eating_sentences(j, n + sentence + terminators))))

sentence_and_terminator(i) ==
    Let(eating_sentences(i, 0), LAMBDA n : Ok(trim_start(Drop(i, n)), Take(i, n)))

RECURSIVE fold_trim_start(_, _)
fold_trim_start(borders, i) ==
    IF borders = <<>> THEN i
    ELSE fold_trim_start(Tail(borders), trim(trim_start_matches(i, Head(borders))))

RECURSIVE fold_trim_end(_, _)
fold_trim_end(borders, i) ==
    IF borders = <<>> THEN i
    ELSE fold_trim_end(Tail(borders), trim(trim_end_matches(i, Head(borders))))

trim_borders(borders, i) == fold_trim_end(borders, fold_trim_start(borders, trim(i)))

\* Ok(rest, <<title, desc>>)
title_and_rest_till_eol(borders, i) ==
    Try(take_to_eol(i), LAMBDA ln :
    Try(sentence_and_terminator(ln.val), LAMBDA st :
        Ok(ln.rest, <<st.val, trim_borders(borders, st.rest)>>)))

single_line_comment(borders, prefix, i) ==
    Try(comment_start(borders, prefix, i), LAMBDA start :
        IF todo_tag(start.rest).ok THEN Err ELSE take_to_eol(start.rest))

\* many0 of comments that go on through the lines that start a todo tag
RECURSIVE many0_any_comment(_, _, _, _)
many0_any_comment(borders, prefix, i, acc) ==
    Let(comment_start(borders, prefix, i), LAMBDA start :
        IF ~start.ok THEN Ok(i, acc)
        ELSE Let(take_to_eol(start.rest), LAMBDA r :
                 many0_any_comment(borders, prefix, r.rest, Append(acc, r.val))))

\* multi::many0(single_line_comment): Ok(rest, the comments), Err when a
\* comment is eaten without the input getting shorter
RECURSIVE many0_single_line_comment(_, _, _, _)
many0_single_line_comment(borders, prefix, i, acc) ==
    Let(single_line_comment(borders, prefix, i), LAMBDA r :
        IF ~r.ok THEN Ok(i, acc)
        ELSE IF Len(r.rest) = Len(i) THEN Err
        ELSE many0_single_line_comment(borders, prefix, r.rest, Append(acc, r.val)))

NotEmpty(s) == s # <<>>

\* rust_todo_content: trim, trim_end_matches("\\"), trim
trim_backslash(s) == trim(trim_end_matches(trim(s), <<"\\">>))

\* str::trim_matches('"')
trim_quotes(s) ==
    Let(Drop(s, TakeWhileLen(s, {"\""})), LAMBDA front :
        Take(front, Len(front) - TakeWhileBackLen(front, {"\""})))

\* a loop that takes none of the lines left
rest_lines_none(rest, acc) == acc

\* the while loop of rust_todo_content: the lines left, the empty ones skipped
RECURSIVE rest_lines(_, _)
rest_lines(rest, acc) ==
    IF rest = <<>> THEN acc
    ELSE Let(take_to_eol(rest), LAMBDA ln :
             rest_lines(ln.rest, IF ln.val # <<>> THEN Append(acc, trim_backslash(ln.val)) ELSE acc))

\* sequence::delimited(char('('), is_not(")"), char(')'))
delimited_parens(i) ==
    IF ~StartsWith(i, <<"(">>) THEN Err
    ELSE Let(TakeTillLen(Tail(i), {")"}), LAMBDA n :
             IF n = 0 \/ ~StartsWith(Drop(i, n + 1), <<")">>) THEN Err
             ELSE Ok(Drop(i, n + 2), SubSeq(i, 2, n + 1)))

rust_todo_content(i) ==
    Try(delimited_parens(i), LAMBDA content :
    Try(title_and_rest_till_eol(<<>>, trim_quotes(trim(content.val))), LAMBDA td :
        Ok(content.rest,
           ParsedTodo(trim_backslash(td.val[1]), None,
                      rest_lines(td.rest,
                                 IF td.val[2] # <<>> THEN <<trim_backslash(td.val[2])>> ELSE <<>>)))))

\* single_line_todo: Some(name) for a name that is not empty
single_may_name(tag) ==
    IF tag.kind = "Standard" /\ tag.name # <<>> THEN Some(tag.name) ELSE None

single_line_todo(borders, prefix, i) ==
    Try(comment_start(borders, prefix, i), LAMBDA start :
    Try(todo_tag(start.rest), LAMBDA tag :
        IF tag.val.kind = "RustMacro" THEN rust_todo_content(tag.rest)
        ELSE Try(title_and_rest_till_eol(borders, tag.rest), LAMBDA td :
             Try(many0_single_line_comment(borders, prefix, td.rest, <<>>), LAMBDA more :
                 Ok(more.rest,
                    ParsedTodo(td.val[1], single_may_name(tag.val),
                               SelectSeq(<<td.val[2]>> \o more.val, NotEmpty)))))))

\* the lines of the comment, each with its borders trimmed
trimmed_lines(borders, comment) ==
    Let(lines(comment), LAMBDA ls : [k \in 1..Len(ls) |-> trim_borders(borders, ls[k])])

\* combinator::opt(comment_start(borders, prefix)): the input left
opt_comment_start(borders, prefix, i) ==
    Let(comment_start(borders, prefix, i), LAMBDA start : IF start.ok THEN start.rest ELSE i)

\* multi_line_todo: Some(name) for any name
multi_may_name(tag) == IF tag.kind = "Standard" THEN Some(tag.name) ELSE None

\* bytes::take_until(suffix), then bytes::tag(suffix)
take_until_suffix(suffix, i) ==
    Let(FindFirst(i, suffix), LAMBDA at :
        IF at < 0 THEN Err ELSE Ok(Drop(i, at + Len(suffix)), Take(i, at)))

multi_line_todo(borders, prefix, suffix, i) ==
    Try(todo_tag(opt_comment_start(borders, prefix, space0(i))), LAMBDA tag :
        IF tag.val.kind = "RustMacro" THEN rust_todo_content(tag.rest)
        ELSE Try(title_and_rest_till_eol(borders, tag.rest), LAMBDA td :
                 IF td.val[2] = suffix
                 THEN Ok(td.rest, ParsedTodo(td.val[1], multi_may_name(tag.val), <<>>))
                 ELSE Try(take_until_suffix(suffix, td.rest), LAMBDA comment :
                          Ok(comment.rest,
                             ParsedTodo(td.val[1], multi_may_name(tag.val),
                                        SelectSeq(<<td.val[2]>> \o trimmed_lines(borders, comment.val),
                                                  NotEmpty))))))

TodoParserConfig(singles, multis, borders) ==
    [singles |-> singles, multis |-> multis, borders |-> borders]

\* the first loop of parse_todo: the first multi-line pair that parses
RECURSIVE try_multis(_, _, _)
try_multis(multis, borders, i) ==
    IF multis = <<>> THEN Err
    ELSE Let(multi_line_todo(borders, Head(multis)[1], Head(multis)[2], i), LAMBDA res :
             IF res.ok THEN res ELSE try_multis(Tail(multis), borders, i))

\* the second loop of parse_todo: the first single-line prefix that parses
RECURSIVE try_singles(_, _, _)
try_singles(singles, borders, i) ==
    IF singles = <<>> THEN Err
    ELSE Let(single_line_todo(borders, Head(singles), i), LAMBDA res :
             IF res.ok THEN res ELSE try_singles(Tail(singles), borders, i))

\* the alternative order: the single-line prefixes before the multi-line pairs
parse_todo_singles_first(config, i) ==
    Let(try_singles(config.singles, config.borders, i), LAMBDA single :
        IF single.ok THEN single ELSE try_multis(config.multis, config.borders, i))

parse_todo(config, i) ==
    Let(try_multis(config.multis, config.borders, i), LAMBDA multi :
        IF multi.ok THEN multi ELSE try_singles(config.singles, config.borders, i))

(***************************************************************************)
(* parse_todo applied to source text: the text is a first line made of a   *)
(* comment opener, a tag and a title, followed by up to MaxLines lines.    *)
(***************************************************************************)
MaxLines == 2

\* c_style()
c_style == TodoParserConfig(<<<<"/", "/">>, <<"/", "/", "/">>>>, << <<<<"/", "*">>, <<"*", "/">>>> >>, <<<<"*">>>>)

\* delphi_style()
delphi_style == TodoParserConfig(<<<<"/", "/">>>>, << <<<<"{">>, <<"}">>>>, <<<<"{", "*">>, <<"*", "}">>>> >>, <<>>)

\* a configuration whose single-line opener and border together read as its
\* multi-line opener
hash_style == TodoParserConfig(<<<<"#">>>>, << <<<<"#", "#">>, <<"=", "#">>>> >>, <<<<"#">>>>)

ParserConfigs == {c_style, delphi_style, hash_style}

Leads == {<<>>, <<"/", "/", " ">>, <<"/", "*", " ">>, <<"#", "#", " ">>, <<"{", "*", " ">>}

Tags == {<<"T", "O", "D", "O", ":", " ">>, <<"F", "I", "X", "M", "E", "(", "a", ")", " ">>, <<"x", " ">>}

FirstTitles == {<<"a">>, <<"a", ".", " ", "b", " ", "*", "/">>, <<"a", ".", " ", "*", "/">>}

MoreLines == {<<"/", "/", " ", "c">>, <<" ", "*", "/">>, <<"=", "#">>, <<"*", "}">>}

NewLines(i) == Cardinality({k \in 1..Len(i) : i[k] = "\n"})

MapIdle ==
    /\ todos = EmptyMap
    /\ calls = <<>>
    /\ listed = <<>>
    /\ remote_issues = EmptyMap
    /\ patch = None

RunIdle ==
    /\ dry_run = FALSE
    /\ simulate_application = FALSE
    /\ msgs = <<>>
    /\ ops = <<>>
    /\ requests = EmptyBag
    /\ applied = None

InitParse ==
    /\ MapIdle /\ RunIdle /\ ScanIdle
    /\ pc = "text"
    /\ cfg \in ParserConfigs
    /\ \E lead \in Leads, tag \in Tags, title \in FirstTitles :
           input = Concat(<<lead, tag, title>>)
    /\ result = None

\* one more line of source text under the first
AppendLine ==
    /\ pc = "text"
    /\ result = None
    /\ NewLines(input) < MaxLines
    /\ \E line \in MoreLines : input' = Concat(<<input, <<"\n">>, line>>)
    /\ UNCHANGED <<mapVars, runVars, scanVars, cfg, result>>

\* source::parse_todo(cfg)(input)
ParseTodo ==
    /\ pc = "text"
    /\ result = None
    /\ result' = Some(parse_todo(cfg, input))
    /\ UNCHANGED <<mapVars, runVars, scanVars, input, cfg>>

NextParse == AppendLine \/ ParseTodo

SpecParse == InitParse /\ [][NextParse]_vars

\* the configured multi-line pairs, by position, that parse the input
MultisThatParse ==
    {k \in 1..Len(cfg.multis) :
        multi_line_todo(cfg.borders, cfg.multis[k][1], cfg.multis[k][2], input).ok}

\* the configured single-line prefixes, by position, that parse the input
SinglesThatParse ==
    {k \in 1..Len(cfg.singles) : single_line_todo(cfg.borders, cfg.singles[k], input).ok}

First(S) == CHOOSE k \in S : \A j \in S : k <= j

\* C5: parse_todo returns the result of the first configured multi-line pair
\* that parses the input; only if none does, the result of the first
\* configured single-line prefix that parses it; and if no alternative
\* parses it, an error and never a todo.
C5_MultisThenSingles ==
    result # None =>
        IF MultisThatParse # {}
        THEN LET m == cfg.multis[First(MultisThatParse)]
             IN  result[1] = multi_line_todo(cfg.borders, m[1], m[2], input)
        ELSE IF SinglesThatParse # {}
        THEN result[1] = single_line_todo(cfg.borders, cfg.singles[First(SinglesThatParse)], input)
        ELSE ~result[1].ok

\* an input parsed where a multi-line pair and a single-line prefix both
\* parse it, with different results
C5_Witness ==
    /\ result # None
    /\ MultisThatParse # {}
    /\ SinglesThatParse # {}
    /\ result[1] # single_line_todo(cfg.borders, cfg.singles[First(SinglesThatParse)], input)

(***************************************************************************)
(* parser/langs.rs: the language registry, as far as the extensions h, c,  *)
(* cs, m, mm, rs and rc go.                                                *)
(***************************************************************************)
lang(name, comment_styles, exts) ==
    [name |-> name, comment_styles |-> comment_styles, file_extensions |-> exts]

\* objc_style(): c_style() and the border "!"
objc_style == TodoParserConfig(c_style.singles, c_style.multis, c_style.borders \o <<<<"!">>>>)

\* all_supported_langs(), a HashSet
all_supported_langs ==
    {lang("C, C++, C#", c_style,
          <<<<"h">>, <<"c">>, <<"c", "p", "p">>, <<"c", "s">>, <<"c", "x", "x">>, <<"c", "c">>, <<"h", "p", "p">>, <<"h", "x", "x">>, <<"h", "h">>, <<"i", "n", "o">>>>),
     lang("Cs", c_style, <<<<"c", "s">>>>),
     lang("Objective-C", objc_style, <<<<"h">>, <<"m">>, <<"m", "m">>>>),
     lang("Rust", c_style, <<<<"r", "s">>, <<"r", "c">>>>)}

\* SupportedLanguage::as_todo_parser_config
as_todo_parser_config(language) == language.comment_styles

\* language_map(), the HashSet iterated in the given order
language_map_from(order) ==
    [ext \in UNION {Range(order[k].file_extensions) : k \in 1..Len(order)} |->
        SelectSeq(order, LAMBDA language : Contains(language.file_extensions, ext))]

(***************************************************************************)
(* utils.rs, finder.rs, finder/rg.rs, finder/parse.rs: the locator.        *)
(***************************************************************************)
\* the lines of the contents, by number, that contain the pattern
matching_lines(contents, pattern) ==
    Let(lines(contents), LAMBDA ls :
        SelectSeq([k \in 1..Len(ls) |-> k], LAMBDA k : FindFirst(ls[k], pattern) >= 0))

\* rg --heading --line-number on one file: the path, then number:line for
\* each matching line
rg_heading(path, contents, pattern) ==
    Let(lines(contents), LAMBDA ls :
    Let(matching_lines(contents, pattern), LAMBDA hits :
        Concat(<<path, <<"\n">>>> \o
               [k \in 1..Len(hits) |-> Concat(<<Digits(hits[k]), <<":">>, ls[hits[k]], <<"\n">>>>)])))

\* get_rg_output: the output of rg for the pattern over the files, visited
\* in the given order, a blank line between two files
get_rg_output(fs, order, pattern) ==
    Join([k \in 1..Len(order) |-> rg_heading(order[k], fs[order[k]], pattern)], <<"\n">>)

\* the files rg prints for the pattern
files_matching(fs, pattern) ==
    {path \in DOMAIN fs : matching_lines(fs[path], pattern) # <<>>}

DigitSet == Range(DigitChars)

\* str::parse::<usize>
RECURSIVE parse_usize(_)
parse_usize(digits) ==
    IF digits = <<>> THEN 0
    ELSE 10 * parse_usize(Take(digits, Len(digits) - 1))
         + ((CHOOSE d \in 1..10 : DigitChars[d] = digits[Len(digits)]) - 1)

parse_rg_line(i) ==
    Let(TakeWhileLen(i, DigitSet), LAMBDA n :
        IF n = 0 \/ ~StartsWith(Drop(i, n), <<":">>) THEN Err
        ELSE Ok(take_to_eol(Drop(i, n + 1)).rest, parse_usize(Take(i, n))))

\* multi::many1(parse_rg_line), after its first line
RECURSIVE many_parse_rg_line(_, _)
many_parse_rg_line(i, acc) ==
    Let(parse_rg_line(i), LAMBDA r :
        IF ~r.ok THEN Ok(i, acc) ELSE many_parse_rg_line(r.rest, Append(acc, r.val)))

many1_parse_rg_line(i) ==
    Try(parse_rg_line(i), LAMBDA r : many_parse_rg_line(r.rest, <<r.val>>))

parse_rg_file(i) ==
    Try(take_to_eol(i), LAMBDA file :
    Try(many1_parse_rg_line(file.rest), LAMBDA line_nums :
        Ok(Drop(line_nums.rest, LineEndingLen(line_nums.rest)), <<file.val, line_nums.val>>)))

\* multi::many1(parse_rg_file), after its first file
RECURSIVE many_parse_rg_file(_, _)
many_parse_rg_file(i, acc) ==
    Let(parse_rg_file(i), LAMBDA r :
        IF ~r.ok THEN Ok(i, acc)
        ELSE IF Len(r.rest) = Len(i) THEN Err
        ELSE many_parse_rg_file(r.rest, Append(acc, r.val)))

parse_rg(i) ==
    Try(parse_rg_file(i), LAMBDA r :
        IF Len(r.rest) = Len(i) THEN Err ELSE many_parse_rg_file(r.rest, <<r.val>>))

PossibleTodosInFile(file, lines_to_search) ==
    [file |-> file, lines_to_search |-> lines_to_search]

\* the characters of the texts here, in the order of their codes
CharOrder == <<"\t", "\n", "\r", " ", "!", "\"", "#", "$", "%", "&", "'", "(", ")", "*", "+", ",", "-", ".", "/", "0", "1", "2", "3", "4", "5", "6", "7", "8", "9", ":", ";", "<", "=", ">", "?", "@", "A", "B", "C", "D", "E", "F", "G", "H", "I", "J", "K", "L", "M", "N", "O", "P", "Q", "R", "S", "T", "U", "V", "W", "X", "Y", "Z", "[", "\\", "]", "^", "_", "a", "b", "c", "d", "e", "f", "g", "h", "i", "j", "k", "l", "m", "n", "o", "p", "q", "r", "s", "t", "u", "v", "w", "x", "y", "z", "{", "|", "}", "~">>

Code(c) == CHOOSE k \in 1..Len(CharOrder) : CharOrder[k] = c

Min(a, b) == IF a <= b THEN a ELSE b

\* String's Ord: a < b
LessText(a, b) ==
    \E k \in 1..Min(Len(a) + 1, Len(b)) :
        /\ Take(a, k - 1) = Take(b, k - 1)
        /\ (k > Len(a) \/ Code(a[k]) < Code(b[k]))

\* Vec<usize>'s Ord: a < b
LessLines(a, b) ==
    \E k \in 1..Min(Len(a) + 1, Len(b)) :
        /\ Take(a, k - 1) = Take(b, k - 1)
        /\ (k > Len(a) \/ a[k] < b[k])

\* the derived Ord of PossibleTodosInFile: by file, then by lines_to_search
LessPossibleTodos(a, b) ==
    \/ LessText(a.file, b.file)
    \/ a.file = b.file /\ LessLines(a.lines_to_search, b.lines_to_search)

\* a parse_rg_output that leaves the entries in the order of the output
parse_rg_output_unsorted(output) ==
    Try(parse_rg(output), LAMBDA parsed :
        Ok(parsed.rest,
           [k \in 1..Len(parsed.val) |->
               PossibleTodosInFile(parsed.val[k][1], parsed.val[k][2])]))

\* rg::parse_rg_output: parse, map to PossibleTodosInFile, sort
parse_rg_output(output) ==
    Try(parse_rg(output), LAMBDA parsed :
        Ok(parsed.rest,
           SortSeq([k \in 1..Len(parsed.val) |->
                       PossibleTodosInFile(parsed.val[k][1], parsed.val[k][2])],
                   LessPossibleTodos)))

(***************************************************************************)
(* parser.rs: IssueMap::from_files_in_directory.                           *)
(***************************************************************************)
\* Path::file_name: the last component
file_name(path) ==
    Let(Components(path), LAMBDA cs : IF cs = <<>> THEN <<>> ELSE cs[Len(cs)])

\* Path::extension: Some(what follows the last dot of the file name), None
\* without a dot or with the only dot in front
extension(path) ==
    Let(file_name(path), LAMBDA name :
    Let({k \in 1..Len(name) : name[k] = "."}, LAMBDA dots :
        IF dots = {} \/ name = <<".", ".">> THEN None
        ELSE Let(CHOOSE k \in dots : \A j \in dots : j <= k, LAMBDA last :
                 IF last = 1 THEN None ELSE Some(Drop(name, last)))))

\* the todo text of Message::UnsupportedFile
unsupported_todo(lines_to_search) ==
    IF Len(lines_to_search) = 1
    THEN <<"l", "i", "n", "e", " ">> \o Digits(lines_to_search[1])
    ELSE <<"l", "i", "n", "e", "s", " ">> \o Join([k \in 1..Len(lines_to_search) |-> Digits(lines_to_search[k])], <<",", " ">>)

UnsupportedFile(path, lines_to_search) ==
    [type |-> "UnsupportedFile", path |-> path, todo |-> unsupported_todo(lines_to_search)]

\* "Seek to the correct line...": <<the text from the line on, current_line>>
RECURSIVE seek(_, _, _)
seek(i, current_line, line) ==
    IF line > current_line THEN seek(take_to_eol(i).rest, current_line + 1, line)
    ELSE <<i, current_line>>

\* i.trim_end_matches(j).lines().fold(0, |n, _| n + 1)
num_lines(i, j) == Len(lines(trim_end_matches(i, j)))

src_span(line, n) == <<line, IF n > 1 THEN Some(line + n - 1) ELSE None>>

\* the progress of the scan: the map, the calls of add_parsed_todo, the
\* messages sent, and per candidate the slice i its parse attempts are
\* made on, the languages that added an occurrence, and of each the text
\* the parser consumed and the span recorded
ScanState(map, added, sent, tried) ==
    [todos |-> map, calls |-> added, msgs |-> sent, attempts |-> tried]

Attempt(file, line, outcome) ==
    [file |-> file, line |-> line, outcome |-> outcome, languages |-> <<>>,
     slice |-> <<>>, parses |-> <<>>]

\* the body of the languages loop on a successful parse
found_todo(st, language, file, line, i, parsed) ==
    Let(FileTodoLocation(file, line, src_span(line, num_lines(i, parsed.rest))[2]), LAMBDA loc :
        ScanState(add_parsed_todo(st.todos, parsed.val, loc),
                  Append(st.calls, [todo |-> parsed.val, loc |-> loc]),
                  Append(st.msgs, Msg("FoundTodo")),
                  [st.attempts EXCEPT
                      ![Len(st.attempts)].languages = Append(@, language.name),
                      ![Len(st.attempts)].parses =
                          Append(@, [consumed |-> Take(i, Len(i) - Len(parsed.rest)),
                                     src_span |-> loc.src_span])]))

\* "Try parsing in each language until we get a match": the loop over the
\* languages of the extension, which goes on after a match
RECURSIVE try_languages(_, _, _, _, _)
try_languages(languages, st, file, line, i) ==
    IF languages = <<>> THEN st
    ELSE Let(parse_todo(as_todo_parser_config(Head(languages)), i), LAMBDA parsed :
             try_languages(Tail(languages),
                           IF parsed.ok THEN found_todo(st, Head(languages), file, line, i, parsed)
                           ELSE st,
                           file, line, i))

\* the loop over lines_to_search of one file
RECURSIVE search_lines(_, _, _, _, _, _)
search_lines(lines_to_search, st, languages, file, i, current_line) ==
    IF lines_to_search = <<>> THEN st
    ELSE Let(seek(i, current_line, Head(lines_to_search)), LAMBDA at :
             search_lines(Tail(lines_to_search),
                          try_languages(languages,
                                        [st EXCEPT !.attempts =
                                            Append(@, [Attempt(file, Head(lines_to_search), "candidate")
                                                          EXCEPT !.slice = at[1]])],
                                        file, Head(lines_to_search), at[1]),
                          languages, file, at[1], at[2]))

\* one turn of the loop over possible_todos, for a file that can be read
search_file(possible_todo, map, contents, st) ==
    Let(extension(possible_todo.file), LAMBDA ext :
        IF ext = None
        THEN [st EXCEPT !.attempts = Append(@, Attempt(possible_todo.file, 0, "no extension"))]
        ELSE IF ext[1] \notin DOMAIN map
        THEN [st EXCEPT !.msgs = Append(@, UnsupportedFile(possible_todo.file,
                                                           possible_todo.lines_to_search)),
                        !.attempts = Append(@, Attempt(possible_todo.file, 0, "unsupported"))]
        ELSE search_lines(possible_todo.lines_to_search, st, map[ext[1]],
                          possible_todo.file, contents, 1))

\* whether the turn for this file opens and reads it
reads_file(possible_todo, map) ==
    Let(extension(possible_todo.file), LAMBDA ext : ext # None /\ ext[1] \in DOMAIN map)

\* IssueMap::distinct_len
distinct_len(m) == Cardinality(DOMAIN m)

\* IssueMap::total_len
RECURSIVE sum_bodies(_, _)
sum_bodies(m, titles) ==
    IF titles = {} THEN 0
    ELSE Let(CHOOSE t \in titles : TRUE, LAMBDA t :
             Len(m[t].body) + sum_bodies(m, titles \ {t}))

total_len(m) == sum_bodies(m, DOMAIN m)

(***************************************************************************)
(* The scan of a directory /r that holds up to MaxFiles files.             *)
(***************************************************************************)
MaxFiles == 2

\* a header, a Rust file, a file without extension, a file whose extension
\* no language has
ScanPaths == {<<"/", "r", "/", "a", ".", "h">>, <<"/", "r", "/", "b", ".", "r", "s">>, <<"/", "r", "/", "M">>, <<"/", "r", "/", "c", ".", "z", "z">>}

ScanContents ==
    {<<"/", "/", " ", "T", "O", "D", "O", ":", " ", "a", "\n", "/", "/", " ", "b", "\n", "/", "/", " ", "T", "O", "D", "O", ":", " ", "a", "\n", "/", "/", " ", "b", "\n">>,
     <<"/", "/", " ", "T", "O", "D", "O", ":", " ", "a", " ", "F", "I", "X", "M", "E", "\n">>,
     <<"x", "\n", "/", "/", " ", "F", "I", "X", "M", "E", ":", " ", "b", "\n">>,
     <<"/", "*", " ", "T", "O", "D", "O", ":", " ", "a", "\n", " ", "*", " ", "d", "\n", " ", "*", "/", "\n">>,
     <<"/", "/", " ", "T", "O", "D", "O", ":", " ", "a", "\n", "/", "/", " ", "F", "I", "X", "M", "E", ":", " ", "b", "\n">>,
     <<"x", "\r", "y", "\n", "/", "/", " ", "T", "O", "D", "O", ":", " ", "a", "\n">>}

FileSystems ==
    UNION {[paths -> ScanContents] :
              paths \in {s \in SUBSET ScanPaths : Cardinality(s) <= MaxFiles}}

\* the positions of from_files_in_directory while the locator runs, one per tag
PcRg == <<"rg TODO", "rg FIXME", "rg @todo", "rg todo!">>

InitScan ==
    /\ MapIdle /\ RunIdle /\ ParseIdle
    /\ pc = "start"
    /\ files \in FileSystems
    /\ rg_output = <<>>
    /\ possible_todos = <<>>
    /\ language_map = <<>>
    /\ attempts = <<>>

\* from_files_in_directory: Message::FindingTodosInSourceCode
StartScan ==
    /\ pc = "start"
    /\ pc' = PcRg[1]
    /\ msgs' = Append(msgs, Msg("FindingTodosInSourceCode"))
    /\ UNCHANGED <<mapVars, dry_run, simulate_application, ops, requests, applied>>
    /\ UNCHANGED <<scanVars, parseVars>>

\* get_rg_output_with_common_patterns: one turn of the loop over
\* TAG_PATTERNS; rg visits the files in an order of its own
GetRgOutput ==
    /\ \E k \in 1..Len(TAG_PATTERNS) :
          /\ pc = PcRg[k]
          /\ pc' = IF k < Len(TAG_PATTERNS) THEN PcRg[k + 1] ELSE "parse"
          /\ \E order \in Orders(files_matching(files, TAG_PATTERNS[k])) :
                 rg_output' = rg_output \o get_rg_output(files, order, TAG_PATTERNS[k])
    /\ UNCHANGED <<mapVars, dry_run, simulate_application, msgs, ops, requests, applied>>
    /\ UNCHANGED <<files, possible_todos, language_map, attempts, parseVars>>

\* FileSearcher::find: rg::parse_rg_output(&output), an Err returned by
\* from_files_in_directory; then langs::language_map()
ParseRgOutput ==
    /\ pc = "parse"
    /\ LET found == parse_rg_output(rg_output) IN
       \/ /\ found.ok
          /\ possible_todos' = found.val
          /\ \E order \in Orders(all_supported_langs) :
                 language_map' = language_map_from(order)
          /\ pc' = "scan"
       \/ /\ ~found.ok
          /\ pc' = "Err(ParseRg)"
          /\ UNCHANGED <<possible_todos, language_map>>
    /\ UNCHANGED <<mapVars, dry_run, simulate_application, msgs, ops, requests, applied>>
    /\ UNCHANGED <<files, rg_output, attempts, parseVars>>

\* one turn of the loop over possible_todos; opening or reading the file
\* may fail, and from_files_in_directory then returns the Err
ScanFile ==
    /\ pc = "scan"
    /\ possible_todos # <<>>
    /\ LET possible_todo == Head(possible_todos) IN
       \/ /\ reads_file(possible_todo, language_map) => possible_todo.file \in DOMAIN files
          /\ LET contents == IF possible_todo.file \in DOMAIN files
                             THEN files[possible_todo.file] ELSE <<>>
                 st == search_file(possible_todo, language_map, contents,
                                   ScanState(todos, calls, msgs, attempts))
             IN  /\ todos' = st.todos
                 /\ calls' = st.calls
                 /\ msgs' = st.msgs
                 /\ attempts' = st.attempts
          /\ possible_todos' = Tail(possible_todos)
          /\ pc' = pc
       \/ /\ reads_file(possible_todo, language_map)
          /\ pc' = "Err(Io)"
          /\ UNCHANGED <<todos, calls, msgs, attempts, possible_todos>>
    /\ UNCHANGED <<listed, remote_issues, patch>>
    /\ UNCHANGED <<dry_run, simulate_application, ops, requests, applied>>
    /\ UNCHANGED <<files, rg_output, language_map, parseVars>>

\* Message::FoundTodos, Ok(todos)
FinishScan ==
    /\ pc = "scan"
    /\ possible_todos = <<>>
    /\ msgs' = Append(msgs, [type |-> "FoundTodos", distinct |-> distinct_len(todos),
                             total |-> total_len(todos)])
    /\ pc' = "Ok"
    /\ UNCHANGED <<mapVars, dry_run, simulate_application, ops, requests, applied>>
    /\ UNCHANGED <<scanVars, parseVars>>

NextScan == StartScan \/ GetRgOutput \/ ParseRgOutput \/ ScanFile \/ FinishScan

SpecScan == InitScan /\ [][NextScan]_vars

\* C3: for each candidate line the first successful parse is accepted: a
\* candidate line contributes at most one occurrence to the map, also when
\* its file's extension maps to several languages whose parsers succeed.
C3_OneOccurrencePerCandidate ==
    \A k \in 1..Len(attempts) : Len(attempts[k].languages) <= 1

\* C4: the candidate list that FileSearcher::find returns is merged and
\* de-duplicated: each file is in at most one entry and no line of a file
\* is a candidate twice.
C4_CandidatesDeduplicated ==
    \A j, k \in 1..Len(possible_todos) :
        /\ (possible_todos[j].file = possible_todos[k].file => j = k)
        /\ NoDuplicates(possible_todos[k].lines_to_search)

\* the notices sent for the file
Notices(path) ==
    {k \in 1..Len(msgs) : msgs[k].type = "UnsupportedFile" /\ msgs[k].path = path}

\* the turns of the loop over possible_todos taken for the file
Turns(path) == {k \in 1..Len(attempts) : attempts[k].file = path}

\* C10: a candidate file whose extension is absent or not mapped adds no
\* occurrence, produces one unsupported-file notice for each of its turns,
\* and the scan goes on to its end.
C10_UnsupportedFileNoticed ==
    \A path \in DOMAIN files :
        (pc = "Ok" /\ ~reads_file(PossibleTodosInFile(path, <<>>), language_map)) =>
            /\ \A k \in 1..Len(calls) : calls[k].loc.file # path
            /\ Cardinality(Notices(path)) = Cardinality(Turns(path))

\* the scan has returned, with Ok(todos) or with the Err of a file
ScanReturned == pc \in {"Ok", "Err(Io)", "Err(ParseRg)"}

\* C11: a failure to open or read one candidate file aborts that file
\* only: the run is not aborted, and when from_files_in_directory returns
\* no other candidate file is left without its turn.
C11_IoFailureAbortsOneFile ==
    /\ pc # "Err(Io)"
    /\ (ScanReturned /\ pc # "Err(ParseRg)") => possible_todos = <<>>

(***************************************************************************)
(* sentence_and_terminator applied to every text over a small alphabet.    *)
(***************************************************************************)
MaxText == 5

\* a letter, two terminators, the space and a line break
SentenceChars == {"a", ".", "?", " ", "\n"}

InitSentence ==
    /\ MapIdle /\ RunIdle /\ ScanIdle
    /\ pc = "sentence"
    /\ input = <<>>
    /\ cfg = [singles |-> <<>>, multis |-> <<>>, borders |-> <<>>]
    /\ result = None

\* one more character of the text
AppendChar ==
    /\ pc = "sentence"
    /\ result = None
    /\ Len(input) < MaxText
    /\ \E c \in SentenceChars : input' = Append(input, c)
    /\ UNCHANGED <<mapVars, runVars, scanVars, cfg, result>>

\* sentence_and_terminator(input)
SentenceAndTerminator ==
    /\ pc = "sentence"
    /\ result = None
    /\ result' = Some(sentence_and_terminator(input))
    /\ UNCHANGED <<mapVars, runVars, scanVars, input, cfg>>

NextSentence == AppendChar \/ SentenceAndTerminator

SpecSentence == InitSentence /\ [][NextSentence]_vars

\* the positions of i where a run of terminators ends before a space or
\* the end of the input
Boundaries(i) ==
    {n \in 1..Len(i) : i[n] \in Terminators /\ (n = Len(i) \/ i[n + 1] = " ")}

\* the terminators of i that some other character follows
Operators(i) ==
    {n \in 1..(Len(i) - 1) : i[n] \in Terminators /\ i[n + 1] \notin Terminators \cup {" "}}

\* C12: the sentence is the shortest prefix of the input that ends with a
\* run of terminators followed by a space or the end of the input, the
\* whole input when there is none; the remainder is the rest of the input
\* without its leading whitespace; a terminator followed by another
\* character never ends the sentence.
C12_SentenceEndsAtBoundary ==
    result # None =>
        LET n == IF Boundaries(input) = {} THEN Len(input) ELSE First(Boundaries(input))
        IN  /\ result[1] = Ok(trim_start(Drop(input, n)), Take(input, n))
            /\ Len(result[1].val) \notin Operators(input)

\* a sentence that goes past a terminator followed by a letter and ends
\* at a later one followed by a space
C12_Witness ==
    /\ result # None
    /\ \E n \in Operators(input) : n < Len(result[1].val)
    /\ Len(result[1].val) < Len(input)
    /\ input[Len(result[1].val) + 1] = " "

(***************************************************************************)
(* single_line_todo and multi_line_todo applied to a todo line and the     *)
(* lines under it.                                                         *)
(***************************************************************************)
\* php_style()
php_style == TodoParserConfig(<<<<"/", "/">>, <<"#">>>>, << <<<<"/", "*">>, <<"*", "/">>>> >>, <<>>)

\* the two configurations that open a comment with // and a block with /*,
\* one with the border * and one without a border
TodoConfigs == {c_style, php_style}

\* the line a candidate starts on: a single-line comment, a block, a bare
\* tag, a macro call
TodoFirstLines ==
    {<<"/", "/", " ", "T", "O", "D", "O", ":", " ", "a">>,
     <<"/", "/", " ", "T", "O", "D", "O", "(", ")", ":", " ", "a", ".", " ", "b">>,
     <<"/", "/", " ", "F", "I", "X", "M", "E", "(", "b", "o", ")", " ", "a">>,
     <<"/", "*", " ", "T", "O", "D", "O", ":", " ", "a", ".", " ", "*", "/">>,
     <<"/", "*", " ", "T", "O", "D", "O", "(", ")", ":", " ", "a", ".", " ", "b">>,
     <<"T", "O", "D", "O", ":", " ", "a">>,
     <<"/", "/", " ", "t", "o", "d", "o", "!", "(", "\"", "a", ".", " ", "b", "\"", ")", ";">>,
     <<"t", "o", "d", "o", "!", "(", "\"", "a", ".", " ", "b", " ", "\\">>,
     <<"t", "o", "d", "o", "!", "(", "\"", "a", " ", "\\">>,
     <<"t", "o", "d", "o", "!", "(">>}

\* the lines under it: comments, a new todo, code, an empty line, lines of
\* a block, its end, lines of a macro's text, its end
TodoMoreLines ==
    {<<"/", "/", " ", "c">>,
     <<"/", "/", " ", "T", "O", "D", "O", ":", " ", "d">>,
     <<"/", "/">>,
     <<"x">>,
     <<>>,
     <<" ", "*", " ", "d", " ", "*">>,
     <<" ", "*", "/">>,
     <<"c", " ", "*", "/", " ", "y">>,
     <<" ", " ", "e", " ", "\\">>,
     <<" ", " ", "f", "\"", ")", " ", "g">>}

InitTodo ==
    /\ MapIdle /\ RunIdle /\ ScanIdle
    /\ pc = "todo"
    /\ cfg \in TodoConfigs
    /\ input \in TodoFirstLines
    /\ result = None

\* one more line of source text under the last
AppendTodoLine ==
    /\ pc = "todo"
    /\ NewLines(input) < MaxLines
    /\ \E line \in TodoMoreLines : input' = Concat(<<input, <<"\n">>, line>>)
    /\ UNCHANGED <<mapVars, runVars, scanVars, cfg, result>>

\* single_line_todo(cfg.borders, "//")(input)
SingleLineTodo ==
    /\ pc = "todo"
    /\ pc' = "single"
    /\ result' = Some(single_line_todo(cfg.borders, cfg.singles[1], input))
    /\ UNCHANGED <<mapVars, dry_run, simulate_application, msgs, ops, requests, applied>>
    /\ UNCHANGED <<scanVars, input, cfg>>

\* multi_line_todo(cfg.borders, "/*", "*/")(input)
MultiLineTodo ==
    /\ pc = "todo"
    /\ pc' = "multi"
    /\ result' = Some(multi_line_todo(cfg.borders, cfg.multis[1][1], cfg.multis[1][2], input))
    /\ UNCHANGED <<mapVars, dry_run, simulate_application, msgs, ops, requests, applied>>
    /\ UNCHANGED <<scanVars, input, cfg>>

NextTodo == AppendTodoLine \/ SingleLineTodo \/ MultiLineTodo

SpecTodo == InitTodo /\ [][NextTodo]_vars

\* the line, taken alone, is a comment of the style that starts no todo tag
IsPlainComment(borders, prefix, line) ==
    Let(comment_start(borders, prefix, line), LAMBDA start :
        start.ok /\ ~todo_tag(start.rest).ok)

\* what the comment says after its opener
CommentText(borders, prefix, line) == comment_start(borders, prefix, line).rest

\* the number of lines, the first included, up to the first line under it
\* that is not such a comment
RunOfComments(borders, prefix, ls) ==
    First({k \in 1..Len(ls) : k = Len(ls) \/ ~IsPlainComment(borders, prefix, ls[k + 1])})

\* the tag of the todo line and what follows it on the line
FirstLineTag(borders, prefix, line) ==
    Try(comment_start(borders, prefix, line), LAMBDA start : todo_tag(start.rest))

\* the first n lines of ls with their line endings, as a length of i
LengthOfLines(i, ls, n) ==
    IF Len(Join(SubSeq(ls, 1, n), <<"\n">>)) + 1 <= Len(i)
    THEN Len(Join(SubSeq(ls, 1, n), <<"\n">>)) + 1
    ELSE Len(i)

\* C13: single_line_todo consumes the todo line and the maximal run of
\* lines right under it that are comments of the same style and start no
\* todo tag; the first other line stays in the remainder and out of the
\* description; the description is the rest of the first line followed by
\* the text of those comments, the empty entries dropped.
C13_SingleLineTodoRun ==
    (pc = "single" /\ result[1].ok /\ FirstLineTag(cfg.borders, cfg.singles[1], input).val.kind # "RustMacro") =>
        LET ls == lines(input)
            n == RunOfComments(cfg.borders, cfg.singles[1], ls)
            tag == FirstLineTag(cfg.borders, cfg.singles[1], ls[1])
            desc0 == title_and_rest_till_eol(cfg.borders, tag.rest).val[2]
        IN  /\ result[1].rest = Drop(input, LengthOfLines(input, ls, n))
            /\ result[1].val.desc_lines =
                   SelectSeq(<<desc0>> \o [k \in 1..(n - 1) |->
                                 CommentText(cfg.borders, cfg.singles[1], ls[k + 1])],
                             NotEmpty)

\* a todo line, a comment under it that is taken, and a line under that
\* which is left
C13_Witness ==
    /\ pc = "single"
    /\ result[1].ok
    /\ Len(result[1].val.desc_lines) = 2
    /\ result[1].rest # <<>>
    /\ RunOfComments(cfg.borders, cfg.singles[1], lines(input)) = 2

\* the tag a block's first line holds, its opener optional
BlockTag(borders, prefix, line) == todo_tag(opt_comment_start(borders, prefix, space0(line)))

\* the rest of the line after its first sentence, as the line has it
RestAfterTitle(line) == trim(sentence_and_terminator(line).rest)

\* multi_line_todo got to the title of a standard tag
BlockTitled ==
    /\ pc = "multi"
    /\ BlockTag(cfg.borders, cfg.multis[1][1], input).ok
    /\ BlockTag(cfg.borders, cfg.multis[1][1], input).val.kind # "RustMacro"

\* the block ends on its first line: no description, the next line is left
EndsOnFirstLine(r, i) ==
    /\ r.ok
    /\ r.val.desc_lines = <<>>
    /\ r.rest = Drop(i, LengthOfLines(i, lines(i), 1))

\* the block ends with the first suffix under its first line: the
\* description is the first line's rest and the lines up to that suffix,
\* their borders stripped, the empty ones dropped
EndsAtSuffix(r, i, borders, suffix, desc0) ==
    LET under == Drop(i, LengthOfLines(i, lines(i), 1))
        at == FindFirst(under, suffix)
    IN  /\ r.ok <=> at >= 0
        /\ r.ok =>
             /\ r.rest = Drop(under, at + Len(suffix))
             /\ r.val.desc_lines =
                    SelectSeq(<<desc0>> \o trimmed_lines(borders, Take(under, at)), NotEmpty)

\* C14: when the rest of the first line after the title is the suffix
\* token, multi_line_todo ends the block on that line with an empty
\* description; otherwise it consumes up to and including the first suffix
\* in the input under that line, and the description is the first line's
\* rest followed by the lines of that span, borders stripped, the empty
\* ones dropped.
C14_BlockEndsAtSuffix ==
    BlockTitled =>
        LET tag == BlockTag(cfg.borders, cfg.multis[1][1], input)
            line == take_to_eol(tag.rest).val
            desc0 == title_and_rest_till_eol(cfg.borders, tag.rest).val[2]
        IN  IF RestAfterTitle(line) = cfg.multis[1][2]
            THEN EndsOnFirstLine(result[1], input)
            ELSE EndsAtSuffix(result[1], input, cfg.borders, cfg.multis[1][2], desc0)

\* the second half of C14 alone
C14_OtherwiseScansToSuffix ==
    BlockTitled =>
        LET tag == BlockTag(cfg.borders, cfg.multis[1][1], input)
            line == take_to_eol(tag.rest).val
            desc0 == title_and_rest_till_eol(cfg.borders, tag.rest).val[2]
        IN  RestAfterTitle(line) # cfg.multis[1][2] =>
                EndsAtSuffix(result[1], input, cfg.borders, cfg.multis[1][2], desc0)

\* the tag the parser that was applied finds at the start of the input
TagFound ==
    IF pc = "single" THEN FirstLineTag(cfg.borders, cfg.singles[1], input)
    ELSE BlockTag(cfg.borders, cfg.multis[1][1], input)

\* a parser was applied, it found the macro-call tag and gave a todo
MacroParsed ==
    /\ pc \in {"single", "multi"}
    /\ TagFound.ok
    /\ TagFound.val.kind = "RustMacro"
    /\ result[1].ok

\* the text between the ( the input i starts with and the first ), its
\* whitespace and quotes trimmed, as its lines
MacroLines(i) == Split(trim_quotes(trim(SubSeq(i, 2, FindFirst(i, <<")">>)))), "\n")

\* what is left of the first line after its first sentence, if anything
MacroFirstRest(line) ==
    IF trim(sentence_and_terminator(line).rest) = <<>> THEN <<>>
    ELSE <<trim_backslash(sentence_and_terminator(line).rest)>>

\* the todo of a macro call but for its description
MacroTodoHead(r, i) ==
    /\ r.val.assignee = None
    /\ r.val.title = trim_backslash(sentence_and_terminator(MacroLines(i)[1]).val)
    /\ r.rest = Drop(i, FindFirst(i, <<")">>) + 1)

\* the example of the macro-call form
MacroExample ==
    rust_todo_content(<<"(", "\"", "A", " ", "s", "p", "e", "c", "i", "a", "l", " ", "t", "o", "d", "o", "\"", ")", ";">>) = Ok(<<";">>, ParsedTodo(<<"A", " ", "s", "p", "e", "c", "i", "a", "l", " ", "t", "o", "d", "o">>, None, <<>>))

\* C15 as it is stated: with the macro-call tag both parsers return the
\* result of rust_todo_content: no assignee, the title is the first sentence
\* of the text between ( and the first ), trimmed of whitespace and quotes,
\* every further line of that text is one description line without its
\* trailing backslash and surrounding whitespace, and the remainder starts
\* right after that ).
C15_EveryFurtherLineDescribes ==
    MacroParsed =>
        /\ result[1] = rust_todo_content(TagFound.rest)
        /\ MacroTodoHead(result[1], TagFound.rest)
        /\ LET tls == MacroLines(TagFound.rest)
           IN  result[1].val.desc_lines =
                   MacroFirstRest(tls[1]) \o [k \in 1..(Len(tls) - 1) |-> trim_backslash(tls[k + 1])]

\* C15, amended: as above, but the further lines of the text that are empty
\* become no description line.
C15_MacroTodoContent ==
    /\ MacroExample
    /\ MacroParsed =>
        /\ result[1] = rust_todo_content(TagFound.rest)
        /\ MacroTodoHead(result[1], TagFound.rest)
        /\ LET tls == SelectSeq(Tail(MacroLines(TagFound.rest)), NotEmpty)
           IN  result[1].val.desc_lines =
                   MacroFirstRest(MacroLines(TagFound.rest)[1])
                       \o [k \in 1..Len(tls) |-> trim_backslash(tls[k])]

\* a macro call whose text goes over three lines, a backslash at the end
\* of the first two, parsed to a title and two description lines
C15_Witness ==
    /\ MacroParsed
    /\ Len(MacroLines(TagFound.rest)) = 3
    /\ Len(result[1].val.desc_lines) >= 2
    /\ \E k \in 1..2 : EndsWith(MacroLines(TagFound.rest)[k], <<"\\">>)

\* the assignees of the issue that add_parsed_todo makes of the parsed todo
AssigneesAdded(todo) ==
    add_parsed_todo(EmptyMap, todo, FileTodoLocation(<<"f">>, 1, None))[todo.title].head.assignees

\* C16: a standard tag followed by empty parentheses has no assignee for
\* the single-line and the multi-line parser alike: the parsed todo's
\* assignee is absent and add_parsed_todo adds no empty name to the
\* issue's assignees.
C16_EmptyParensNoAssignee ==
    (/\ pc \in {"single", "multi"}
     /\ result[1].ok
     /\ TagFound.val = Standard(<<>>)) =>
        /\ result[1].val.assignee = None
        /\ ~Contains(AssigneesAdded(result[1].val), <<>>)

(***************************************************************************)
(* parser/issue.rs: the location a link of an issue body names, and the    *)
(* round trip of a location through its link.                              *)
(***************************************************************************)
\* character::digit1, then str::parse::<usize>
digit1_usize(i) ==
    Let(TakeWhileLen(i, DigitSet), LAMBDA n :
        IF n = 0 THEN Err ELSE Ok(Drop(i, n), parse_usize(Take(i, n))))

\* bytes::tag(t), the input left as the value
tag(t, i) == IF StartsWith(i, t) THEN Ok(Drop(i, Len(t)), Unit) ELSE Err

\* bytes::take_till(|c| c == stop)
take_till(stop, i) ==
    Let(TakeTillLen(i, {stop}), LAMBDA n : Ok(Drop(i, n), Take(i, n)))

\* span_from_github_link::convert_line
convert_line(ii) == Try(tag(<<"-", "L">>, ii), LAMBDA dash : digit1_usize(dash.rest))

span_from_github_link(i) ==
    Try(tag(<<"#", "L">>, i), LAMBDA hash :
    Try(digit1_usize(hash.rest), LAMBDA start :
    Let(convert_line(start.rest), LAMBDA may_end :
        IF may_end.ok THEN Ok(may_end.rest, <<start.val, Some(may_end.val)>>)
        ELSE Ok(start.rest, <<start.val, None>>))))

repo_from_github_link(i) ==
    Try(take_till("/", i), LAMBDA user :
    Try(tag(<<"/">>, user.rest), LAMBDA slash :
    Try(take_till("/", slash.rest), LAMBDA repo :
        Ok(repo.rest, <<user.val, repo.val>>))))

GitHubTodoLocation(repo, checkout, file, span) ==
    [repo |-> repo, checkout |-> checkout, file |-> file, src_span |-> span]

todo_location_from_github_link(i) ==
    Try(tag(GitHubUrl \o <<"/">>, i), LAMBDA host :
    Try(repo_from_github_link(host.rest), LAMBDA repo :
    Try(tag(<<"/", "b", "l", "o", "b", "/">>, repo.rest), LAMBDA blob :
    Try(take_till("/", blob.rest), LAMBDA checkout :
    Try(tag(<<"/">>, checkout.rest), LAMBDA slash :
    Try(take_till("#", slash.rest), LAMBDA file :
    Try(span_from_github_link(file.rest), LAMBDA span :
        Ok(span.rest,
           GitHubTodoLocation(repo.val, checkout.val, file.val, span.val)))))))))

MaxLineNo == 11

\* files under the project root: at its top, in a directory, named through
\* ".", with a space and with a # in the name
LinkFiles == {<<"/", "r", "/", "a", ".", "r", "s">>, <<"/", "r", "/", "s", "r", "c", "/", "b", ".", "r", "s">>, <<"/", "r", "/", ".", "/", "a", ".", "r", "s">>, <<"/", "r", "/", "d", " ", "e", ".", "r", "s">>, <<"/", "r", "/", "c", "#", "/", "m", ".", "c", "s">>}

\* one line, or the lines from start to a later end
LinkSpans ==
    {<<start, None>> : start \in 1..MaxLineNo}
        \cup {<<se[1], Some(se[2])>> :
                 se \in {p \in (1..MaxLineNo) \X (2..(MaxLineNo + 1)) : p[1] < p[2]}}

\* the location to render: input is the FileTodoLocation
InitLink ==
    /\ MapIdle /\ RunIdle /\ ScanIdle
    /\ pc = "loc"
    /\ \E file \in LinkFiles, span \in LinkSpans :
           input = [file |-> file, src_span |-> span]
    /\ cfg = [singles |-> <<>>, multis |-> <<>>, borders |-> <<>>]
    /\ result = <<>>

\* loc.to_github_link(cwd, owner, repo, checkout): result is <<the link>>
ToGithubLink ==
    /\ pc = "loc"
    /\ pc' = "link"
    /\ result' = <<to_github_link(input, Cwd, Owner, Repo, Checkout)>>
    /\ UNCHANGED <<mapVars, dry_run, simulate_application, msgs, ops, requests, applied>>
    /\ UNCHANGED <<scanVars, input, cfg>>

\* todo_location_from_github_link(link): result is <<the link, what it parses to>>
TodoLocationFromGithubLink ==
    /\ pc = "link"
    /\ result[1] # None
    /\ pc' = "parsed"
    /\ result' = Append(result, todo_location_from_github_link(result[1][1]))
    /\ UNCHANGED <<mapVars, dry_run, simulate_application, msgs, ops, requests, applied>>
    /\ UNCHANGED <<scanVars, input, cfg>>

NextLink == ToGithubLink \/ TodoLocationFromGithubLink

SpecLink == InitLink /\ [][NextLink]_vars

\* #L<start> or #L<start>-L<end>
SpanSuffix(span) ==
    <<"#", "L">> \o Digits(span[1]) \o (IF span[2] # None THEN <<"-", "L">> \o Digits(span[2][1]) ELSE <<>>)

\* C17: to_github_link renders a location under the root to a link that
\* ends in #L<start> or #L<start>-L<end>, and todo_location_from_github_link
\* recovers from that link the owner, the repo, the checkout, the path
\* relative to the root and the span.
C17_LinkRoundTrip ==
    /\ pc \in {"link", "parsed"} =>
           /\ result[1] # None
           /\ EndsWith(result[1][1], SpanSuffix(input.src_span))
    /\ pc = "parsed" =>
           result[2] = Ok(<<>>, GitHubTodoLocation(<<Owner, Repo>>, Checkout,
                                                   display(strip_prefix(input.file, Cwd)[1]),
                                                   input.src_span))

\* the messages after which an Error is a failure of the setup: the git
\* origin, the owner and repo, the checkout hash, the listing that the
\* tracker answers only to good credentials
SetupSteps == {"GettingOrigin", "GettingOwnerRepo", "GettingCheckoutHash", "GettingIssues"}

\* the run of github::run ended with a fatal setup error
SetupFailed ==
    \E k \in 1..Len(msgs) :
        /\ msgs[k].type = "Error"
        /\ (k = 1 \/ msgs[k - 1].type \in SetupSteps)

\* C18: the process exits with a status that is not zero when a fatal
\* setup error occurred, and with status zero otherwise.
C18_ExitStatusTellsSetupFailure ==
    pc = "exit(0)" => ~SetupFailed

\* the parses accepted for the candidates, each with its candidate line
AcceptedParses ==
    UNION {{[line |-> attempts[k].line,
             consumed |-> attempts[k].parses[p].consumed,
             src_span |-> attempts[k].parses[p].src_span] :
               p \in 1..Len(attempts[k].parses)} : k \in 1..Len(attempts)}

\* C19: the span recorded for an accepted parse starts at the candidate
\* line; its end is absent exactly when the text the parser consumed lies
\* on one line, and is otherwise the start plus the number of lines that
\* text covers, minus one; so a recorded end is greater than the start.
C19_SpanCoversConsumedLines ==
    \A a \in AcceptedParses :
        LET n == Len(lines(a.consumed))
        IN  /\ a.src_span[1] = a.line
            /\ a.src_span[2] = None <=> n <= 1
            /\ n > 1 => a.src_span[2] = Some(a.line + n - 1)
            /\ a.src_span[2] # None => a.src_span[2][1] > a.line

\* the text of the file from the first character of its line n on, the
\* lines counted as the locator counts them
RECURSIVE FromLine(_, _)
FromLine(contents, n) ==
    IF n <= 1 THEN contents
    ELSE FromLine(Drop(contents, IF TakeTillLen(contents, {"\n"}) < Len(contents)
                                 THEN TakeTillLen(contents, {"\n"}) + 1
                                 ELSE Len(contents)),
                  n - 1)

\* C20: within a file the cursor only moves forward: from one candidate
\* to a later one of the same turn the slice only shrinks; and each parse
\* attempt for candidate line n is made on the slice that starts at the
\* first character of line n of the file.
C20_AttemptStartsAtCandidateLine ==
    /\ \A k \in 1..(Len(attempts) - 1) :
           (/\ attempts[k].outcome = "candidate"
            /\ attempts[k + 1].outcome = "candidate"
            /\ attempts[k].file = attempts[k + 1].file
            /\ attempts[k].line < attempts[k + 1].line) =>
               EndsWith(attempts[k].slice, attempts[k + 1].slice)
    /\ \A k \in 1..Len(attempts) :
           attempts[k].outcome = "candidate" =>
               attempts[k].slice = FromLine(files[attempts[k].file], attempts[k].line)

(***************************************************************************)
(* trim_borders applied, and applied again, to every text over a small     *)
(* alphabet, with the borders of the C and of the Objective-C styles.      *)
(***************************************************************************)
\* a letter, the two borders, the space and a line break
BorderChars == {"a", "*", "!", " ", "\n"}

BorderConfigs == {c_style, objc_style}

InitBorders ==
    /\ MapIdle /\ RunIdle /\ ScanIdle
    /\ pc = "borders"
    /\ input = <<>>
    /\ cfg \in BorderConfigs
    /\ result = None

\* one more character of the text
AppendBorderChar ==
    /\ pc = "borders"
    /\ result = None
    /\ Len(input) < MaxText
    /\ \E c \in BorderChars : input' = Append(input, c)
    /\ UNCHANGED <<mapVars, runVars, scanVars, cfg, result>>

\* trim_borders(&borders, input), and trim_borders of what it returned:
\* result is <<once, twice>>
TrimBorders ==
    /\ pc = "borders"
    /\ result = None
    /\ result' = <<trim_borders(cfg.borders, input),
                   trim_borders(cfg.borders, trim_borders(cfg.borders, input))>>
    /\ UNCHANGED <<mapVars, runVars, scanVars, input, cfg>>

NextBorders == AppendBorderChar \/ TrimBorders

SpecBorders == InitBorders /\ [][NextBorders]_vars

\* C21: trim_borders is idempotent: applied to its own result it returns
\* that result; and for the border * the text " * hello *" with a line
\* break after it gives "hello".
C21_TrimBordersIdempotent ==
    /\ trim_borders(<<<<"*">>>>, <<" ", "*", " ", "h", "e", "l", "l", "o", " ", "*", "\n">>) = <<"h", "e", "l", "l", "o">>
    /\ result # None => result[2] = result[1]

\* the locator output as its lines
RgLines == Split(rg_output, "\n")

\* a line of the form <digits>:<text>
IsNumbered(line) ==
    /\ TakeWhileLen(line, DigitSet) > 0
    /\ StartsWith(Drop(line, TakeWhileLen(line, DigitSet)), <<":">>)

\* the heading lines of the blocks, by position
Headings == SelectSeq([k \in 1..Len(RgLines) |-> k],
                      LAMBDA k : RgLines[k] # <<>> /\ ~IsNumbered(RgLines[k]))

\* the number of numbered lines right under line h
NumberedUnder(h) ==
    First({n \in 0..(Len(RgLines) - h) :
              h + n = Len(RgLines) \/ ~IsNumbered(RgLines[h + n + 1])})

\* the block under the heading at line h, as a candidate entry
BlockAt(h) ==
    PossibleTodosInFile(RgLines[h],
                        [n \in 1..NumberedUnder(h) |->
                            parse_usize(Take(RgLines[h + n],
                                             TakeWhileLen(RgLines[h + n], DigitSet)))])

\* how often the entry e is in the list s
Count(s, e) == Cardinality({k \in 1..Len(s) : s[k] = e})

\* parse_rg_output has returned the candidate list and no file had its turn
CandidatesParsed == pc = "scan" /\ attempts = <<>>

\* C22: the locator output, blocks of a heading line with the file path
\* and <digits>:<text> lines under it, becomes one (file, line numbers)
\* entry per block, the numbers in the order of the lines and one per
\* line, and parse_rg_output returns the entries sorted by file name.
C22_OneSortedEntryPerBlock ==
    CandidatesParsed =>
        /\ Len(possible_todos) = Len(Headings)
        /\ \A k \in 1..Len(Headings) :
               Count(possible_todos, BlockAt(Headings[k]))
                   = Cardinality({j \in 1..Len(Headings) : BlockAt(Headings[j]) = BlockAt(Headings[k])})
        /\ \A k \in 1..(Len(possible_todos) - 1) :
               ~LessText(possible_todos[k + 1].file, possible_todos[k].file)

\* an output whose first block is not of the least file, with a block of
\* two numbered lines, parsed
C22_Witness ==
    /\ CandidatesParsed
    /\ \E k \in 2..Len(Headings) : LessText(RgLines[Headings[k]], RgLines[Headings[1]])
    /\ \E k \in 1..Len(possible_todos) : Len(possible_todos[k].lines_to_search) >= 2

(***************************************************************************)
(* C23: the errors of the two inputs of the patch.                         *)
(***************************************************************************)
\* the step named by the message s has ended with an error
StepFailed(s) ==
    \E k \in 2..Len(msgs) : msgs[k].type = "Error" /\ msgs[k - 1].type = s

\* C23: when from_files_in_directory or get_github_issues has returned an
\* error in Finder::run, no create, update or close request is issued: no
\* patch is prepared and no operation of apply_patch exists.
C23_InputErrorSendsNothing ==
    (StepFailed("FindingTodosInSourceCode") \/ StepFailed("GettingIssues")) =>
        /\ Sent(WriteMethods) = {}
        /\ ops = <<>>
        /\ patch = None /\ applied = None

\* a run that would write (no dry run, todos found) whose listing failed
\* has returned
C23_Witness ==
    /\ StepFailed("GettingIssues")
    /\ ~dry_run
    /\ DOMAIN todos # {}
    /\ pc = "exit(0)"

(***************************************************************************)
(* parser/issue.rs: the body of a listed issue.                            *)
(***************************************************************************)
\* todo_location_from_github_markdown_link: the bare link, or [..](link ..)
todo_location_from_github_markdown_link(i) ==
    Let(todo_location_from_github_link(i), LAMBDA may_tloc :
        IF may_tloc.ok THEN may_tloc
        ELSE Try(tag(<<"[">>, i), LAMBDA open :
             Try(take_till("]", open.rest), LAMBDA text :
             Try(tag(<<"]", "(">>, text.rest), LAMBDA paren :
             Try(todo_location_from_github_link(paren.rest), LAMBDA tloc :
             Try(take_till(")", tloc.rest), LAMBDA hover :
             Try(tag(<<")">>, hover.rest), LAMBDA close :
                 Ok(close.rest, tloc.val))))))))

\* many_till(take_to_eol, todo_location_from_github_markdown_link): the
\* lines up to the first line that starts with a link; an Err when
\* take_to_eol consumes nothing
RECURSIVE many_till_link(_, _)
many_till_link(i, acc) ==
    Let(todo_location_from_github_markdown_link(i), LAMBDA tloc :
        IF tloc.ok THEN Ok(tloc.rest, <<acc, tloc.val>>)
        ELSE Let(take_to_eol(i), LAMBDA ln :
                 IF Len(ln.rest) = Len(i) THEN Err
                 ELSE many_till_link(ln.rest, Append(acc, ln.val))))

issue_todo(i) == many_till_link(i, <<>>)

\* the derived Ord of GitHubTodoLocation: a < b
LessGitHubTodoLocation(a, b) ==
    \/ LessText(a.repo[1], b.repo[1])
    \/ a.repo[1] = b.repo[1] /\ LessText(a.repo[2], b.repo[2])
    \/ a.repo = b.repo /\ LessText(a.checkout, b.checkout)
    \/ a.repo = b.repo /\ a.checkout = b.checkout /\ LessText(a.file, b.file)
    \/ /\ a.repo = b.repo /\ a.checkout = b.checkout /\ a.file = b.file
       /\ \/ a.src_span[1] < b.src_span[1]
          \/ /\ a.src_span[1] = b.src_span[1]
             /\ b.src_span[2] # None
             /\ (a.src_span[2] = None \/ a.src_span[2][1] < b.src_span[2][1])

LessDescTodo(a, b) == LessGitHubTodoLocation(a[2], b[2])

\* the loop 'todos of issue_body
RECURSIVE issue_body_todos(_, _)
issue_body_todos(ii, descs_todos) ==
    Try(issue_todo(ii), LAMBDA desc_todo :
    Let(Drop(desc_todo.rest, TakeWhileLen(desc_todo.rest, {"\n"})), LAMBDA j :
        IF j = <<>> THEN Ok(j, Append(descs_todos, desc_todo.val))
        ELSE issue_body_todos(j, Append(descs_todos, desc_todo.val))))

\* issue::issue_body: the (description lines, location) of every todo of
\* the body, sorted by location
issue_body(i) ==
    Try(issue_body_todos(i, <<>>), LAMBDA todos_of_body :
        Ok(todos_of_body.rest, SortSeq(todos_of_body.val, LessDescTodo)))

(***************************************************************************)
(* Two runs of the reconciliation against a tracker that stores what it    *)
(* is sent: get_github_issues, prepare_patch, apply_patch with every       *)
(* request answered Ok, then get_github_issues and prepare_patch again.    *)
(***************************************************************************)
\* a file under the project root with a # in its path
FileWithHash == <<"/", "r", "/", "c", "#", "/", "m", ".", "c", "s">>

Occurrence(title, may_assignee, desc_lines, file, line) ==
    [todo |-> ParsedTodo(title, may_assignee, desc_lines),
     loc |-> FileTodoLocation(file, line, None)]

\* the occurrences found in the source code, in the order found
ReconcileLocals ==
    {<<>>,
     <<Occurrence(TitleA, None, <<>>, FileUnderRoot, 1)>>,
     <<Occurrence(TitleA, Some(<<"a">>), <<<<"d">>>>, FileUnderRoot, 1)>>,
     <<Occurrence(TitleA, None, <<>>, FileUnderRoot, 1),
       Occurrence(TitleB, Some(<<"b">>), <<>>, FileUnderRoot, 2)>>,
     <<Occurrence(TitleA, Some(<<"b">>), <<>>, FileUnderRoot, 1),
       Occurrence(TitleA, Some(<<"a">>), <<<<"d">>>>, FileUnderRoot, 3)>>,
     <<Occurrence(TitleB, None, <<>>, FileWithHash, 1)>>,
     <<Occurrence(TitleA, None, <<>>, FileUnderRoot, 1),
       Occurrence(TitleB, None, <<>>, FileOutsideRoot, 1)>>}

\* the map that add_parsed_todo builds from the occurrences
RECURSIVE MapOf(_, _)
MapOf(found, m) ==
    IF found = <<>> THEN m
    ELSE MapOf(Tail(found), add_parsed_todo(m, Head(found).todo, Head(found).loc))

\* an issue as the tracker lists it: body is Option<String>
TrackerIssue(number, title, body) == [number |-> number, title |-> title, body |-> body]

\* a body as an earlier run sent it
BodySent ==
    to_github_string(<< <<<<>>, FileTodoLocation(FileUnderRoot, 1, None)>> >>,
                     Cwd, Owner, Repo, Checkout)

\* a body written by hand, without a link
BodyByHand == Some(<<"f", "i", "x", " ", "i", "t">>)

\* the open issues with the label that the tracker has before the run
ReconcileListings ==
    {<<>>,
     <<TrackerIssue(1, TitleA, BodySent)>>,
     <<TrackerIssue(1, TitleA, None)>>,
     <<TrackerIssue(1, TitleA, BodyByHand)>>,
     <<TrackerIssue(1, TitleA, BodySent), TrackerIssue(2, TitleD, BodySent)>>,
     <<TrackerIssue(1, TitleA, BodySent), TrackerIssue(2, TitleA, BodySent)>>,
     <<TrackerIssue(1, TitleD, BodySent), TrackerIssue(2, TitleB, BodyByHand)>>}

\* the highest number of the issues listed, 0 for none: the tracker numbers
\* the issues created in a run from the next number on
HighestNumber(issues) ==
    IF issues = <<>> THEN 0
    ELSE CHOOSE n \in {issues[k].number : k \in 1..Len(issues)} :
             \A k \in 1..Len(issues) : issues[k].number <= n

InitReconcile ==
    /\ \E found \in ReconcileLocals : calls = found /\ todos = MapOf(found, EmptyMap)
    /\ listed \in ReconcileListings
    /\ remote_issues = EmptyMap
    /\ patch = None
    /\ pc = "issues"
    /\ dry_run = FALSE
    /\ simulate_application = FALSE
    /\ msgs = <<>>
    /\ ops = <<>>
    /\ requests = EmptyBag
    /\ applied = None
    /\ ScanIdle /\ ParseIdle

\* the octocrab issue as add_issue reads it: its body parsed by issue_body
ListedIssue(issue) ==
    [number |-> issue.number, title |-> issue.title,
     body |-> IF issue.body = None THEN None
              ELSE Let(issue_body(issue.body[1]), LAMBDA parsed :
                       Some(IF parsed.ok THEN Some(parsed.val) ELSE None))]

\* get_github_issues: add_issue on every issue of the listing
ListIssues ==
    /\ pc = "issues"
    /\ remote_issues' = RemoteOf([k \in 1..Len(listed) |-> ListedIssue(listed[k])], EmptyMap)
    /\ pc' = "prepare"
    /\ UNCHANGED <<todos, calls, listed, patch>>
    /\ UNCHANGED <<dry_run, simulate_application, msgs, ops, requests, applied>>
    /\ UNCHANGED <<scanVars, parseVars>>

\* remote_issues.prepare_patch(local_issues), of the first or the second run
PrepareEitherPatch ==
    /\ pc = "prepare"
    /\ \E localOrder \in Orders(DOMAIN todos), remoteOrder \in Orders(DOMAIN remote_issues) :
         patch' = Some(prepare_patch(remote_issues, todos, localOrder, remoteOrder))
    /\ pc' = IF applied = None THEN "apply" ELSE "done"
    /\ UNCHANGED <<todos, calls, listed, remote_issues>>
    /\ UNCHANGED <<dry_run, simulate_application, msgs, ops, requests, applied>>
    /\ UNCHANGED <<scanVars, parseVars>>

\* a create, update or close request with what it carries
SentRequest(method, id, title, body, assignees) ==
    [method |-> method, id |-> id, title |-> title, body |-> body, assignees |-> assignees]

Rendered(body) == to_github_string(body, Cwd, Owner, Repo, Checkout)[1]

\* the update request of the edit of the title t
UpdateRequest(p, t) ==
    SentRequest("update", p.edit[t].head.external_id, p.edit[t].head.title,
                Rendered(p.edit[t].body), p.edit[t].head.assignees)

\* the create request of the title t
CreateRequest(p, t) ==
    SentRequest("create", 0, p.create[t].head.title,
                Rendered(p.create[t].body), p.create[t].head.assignees)

\* the tracker after the requests: the closed issues are no longer listed,
\* the updated ones have the title and body sent, the created ones follow
\* in the order co in which their requests arrived
TrackerAfter(p, co) ==
    LET kept == SelectSeq(listed, LAMBDA issue : ~Contains(p.delete, issue.number))
        EditOf(issue) == {t \in DOMAIN p.edit : p.edit[t].head.external_id = issue.number}
    IN  [k \in 1..Len(kept) |->
            IF EditOf(kept[k]) = {} THEN kept[k]
            ELSE TrackerIssue(kept[k].number,
                              UpdateRequest(p, CHOOSE t \in EditOf(kept[k]) : TRUE).title,
                              Some(UpdateRequest(p, CHOOSE t \in EditOf(kept[k]) : TRUE).body))]
        \o [k \in 1..Len(co) |->
               TrackerIssue(HighestNumber(listed) + k, CreateRequest(p, co[k]).title,
                            Some(CreateRequest(p, co[k]).body))]

\* apply_patch with every request answered Ok: an edit whose body does not
\* render returns an Err before any request, a create whose body does not
\* render sends nothing
ApplyPatchAllOk ==
    /\ pc = "apply"
    /\ applied' = patch
    /\ LET p == patch[1]
           creates == {t \in DOMAIN p.create : Renders(p.create[t].body)}
       IN  IF \E t \in DOMAIN p.edit : ~Renders(p.edit[t].body)
           THEN /\ pc' = "failed"
                /\ UNCHANGED <<listed, requests>>
           ELSE /\ pc' = IF creates = DOMAIN p.create THEN "issues" ELSE "failed"
                /\ requests' = SetToBag({CreateRequest(p, t) : t \in creates}
                                   \cup {UpdateRequest(p, t) : t \in DOMAIN p.edit}
                                   \cup {SentRequest("close", p.delete[k], <<>>, <<>>, <<>>) :
                                            k \in 1..Len(p.delete)})
                /\ \E co \in Orders(creates) : listed' = TrackerAfter(p, co)
    /\ UNCHANGED <<todos, calls, remote_issues, patch>>
    /\ UNCHANGED <<dry_run, simulate_application, msgs, ops>>
    /\ UNCHANGED <<scanVars, parseVars>>

NextReconcile == ListIssues \/ PrepareEitherPatch \/ ApplyPatchAllOk

SpecReconcile == InitReconcile /\ [][NextReconcile]_vars

\* C24: when the patch was applied with every operation succeeding, the
\* patch computed again from the same local todos and the issues that the
\* tracker lists now has nothing to create and nothing to delete.
C24_ConvergesInOneRun ==
    pc = "done" => (DOMAIN patch[1].create = {} /\ patch[1].delete = <<>>)

\* the edit or the delete of the listed issue, if the patch has one
EditsOf(issue) == {t \in DOMAIN patch[1].edit : patch[1].edit[t].head.external_id = issue.number}

DeletesOf(issue) == {k \in 1..Len(patch[1].delete) : patch[1].delete[k] = issue.number}

\* C25: whatever the body texts of the listed issues, the patch computed
\* from the listing has no create for a title that a listed issue has, and
\* every listed issue is in exactly one of edit and delete.
C25_ListedIssuesAllAccounted ==
    pc = "apply" =>
        \A k \in 1..Len(listed) :
            /\ listed[k].title \notin DOMAIN patch[1].create
            /\ Cardinality(EditsOf(listed[k])) + Cardinality(DeletesOf(listed[k])) = 1

\* C27: the update request of a title that is local and at the tracker
\* carries the assignees that add_parsed_todo accumulated for that title.
C27_EditCarriesLocalAssignees ==
    \A r \in BagToSet(requests) :
        r.method = "update" => r.assignees = todos[r.title].head.assignees

\* the locator has run for every pattern and its output has been parsed
LocatorDone == pc \notin (Range(PcRg) \cup {"start", "parse"})

\* C26: when every locator run has yielded empty output, FileSearcher::find
\* returns an empty candidate list and from_files_in_directory returns an
\* empty IssueMap and no error.
C26_EmptyOutputGivesEmptyMap ==
    (LocatorDone /\ rg_output = <<>>) =>
        /\ pc \in {"scan", "Ok"}
        /\ possible_todos = <<>>
        /\ todos = EmptyMap

\* the first line of the input
FirstLine(i) == Take(i, TakeTillLen(i, {"\n"}))

\* the multi-line pairs of the configuration for which the first line of
\* the input is <prefix> <tag>a. <suffix>, with a standard tag
OneLineBlocks ==
    {k \in 1..Len(cfg.multis) :
        \E t \in {<<"T", "O", "D", "O", ":", " ">>, <<"F", "I", "X", "M", "E", "(", "a", ")", " ">>} :
            FirstLine(input) = Concat(<<cfg.multis[k][1], <<" ">>, t, <<"a", ".", " ">>, cfg.multis[k][2]>>)}

\* C28: parse_todo on a block comment that opens, holds the todo and
\* closes on one line, followed by further lines, consumes nothing beyond
\* the suffix on that line, and the title and the description lines
\* returned do not contain the suffix.
C28_OneLineBlockStaysOnItsLine ==
    (result # None /\ OneLineBlocks # {} /\ result[1].ok) =>
        /\ Len(input) - Len(result[1].rest) <= Len(FirstLine(input))
        /\ \A k \in OneLineBlocks :
               /\ FindFirst(result[1].val.title, cfg.multis[k][2]) < 0
               /\ \A d \in 1..Len(result[1].val.desc_lines) :
                      FindFirst(result[1].val.desc_lines[d], cfg.multis[k][2]) < 0

(***************************************************************************)
(* parse_rg_output on locator output built block by block: a heading       *)
(* line, numbered lines under it, a blank line between the blocks of one   *)
(* locator run and none between the outputs of two runs.                   *)
(***************************************************************************)
MaxOutputLines == 4

OutputHeadings == {<<"a", ".", "r", "s">>, <<"b", ".", "r", "s">>}

\* matching lines as rg prints them; rg ends a line at \n only, so that a
\* line of a file with a carriage return in it is printed with it
OutputNumbered == {<<"1", ":", "/", "/", " ", "T", "O", "D", "O", ":", " ", "a">>, <<"2", ":", "/", "/", " ", "T", "O", "D", "O", ":", " ", "b", "\r", "c">>, <<"3", ":", "/", "/", " ", "F", "I", "X", "M", "E", ":", " ", "d">>}

InitOutput ==
    /\ MapIdle /\ RunIdle /\ ParseIdle
    /\ pc = "rg"
    /\ files = <<>>
    /\ rg_output = <<>>
    /\ possible_todos = <<>>
    /\ language_map = <<>>
    /\ attempts = <<>>

\* rg starts the block of the next file
PrintHeading ==
    /\ pc = "rg"
    /\ NewLines(rg_output) < MaxOutputLines - 1
    /\ IF rg_output = <<>> THEN TRUE ELSE IsNumbered(RgLines[Len(RgLines) - 1])
    /\ \E heading \in OutputHeadings, blank \in {<<>>, <<"\n">>} :
          /\ blank # <<>> => rg_output # <<>>
          /\ rg_output' = Concat(<<rg_output, blank, heading, <<"\n">>>>)
    /\ UNCHANGED <<mapVars, runVars, parseVars>>
    /\ UNCHANGED <<files, possible_todos, language_map, attempts>>

\* rg prints a matching line of the file of the block
PrintNumbered ==
    /\ pc = "rg"
    /\ NewLines(rg_output) < MaxOutputLines
    /\ rg_output # <<>>
    /\ \E line \in OutputNumbered : rg_output' = Concat(<<rg_output, line, <<"\n">>>>)
    /\ UNCHANGED <<mapVars, runVars, parseVars>>
    /\ UNCHANGED <<files, possible_todos, language_map, attempts>>

\* get_rg_output_with_common_patterns returns the bytes collected
RgOutputCollected ==
    /\ pc = "rg"
    /\ IF rg_output = <<>> THEN FALSE ELSE IsNumbered(RgLines[Len(RgLines) - 1])
    /\ pc' = "parse"
    /\ UNCHANGED <<mapVars, dry_run, simulate_application, msgs, ops, requests, applied>>
    /\ UNCHANGED <<scanVars, parseVars>>

NextOutput == PrintHeading \/ PrintNumbered \/ RgOutputCollected \/ ParseRgOutput

SpecOutput == InitOutput /\ [][NextOutput]_vars

\* the line numbers of all the candidates together
RECURSIVE CandidateLines(_)
CandidateLines(candidates) ==
    IF candidates = <<>> THEN 0
    ELSE Len(Head(candidates).lines_to_search) + CandidateLines(Tail(candidates))

\* C29: when parse_rg_output returns Ok, every line of the locator output
\* is accounted for in the candidate list: each heading line has its entry
\* and each numbered line its line number; no trailing part of the output
\* is left out.
C29_NoOutputDiscarded ==
    CandidatesParsed =>
        /\ Len(possible_todos) = Len(Headings)
        /\ CandidateLines(possible_todos)
               = Cardinality({k \in 1..Len(RgLines) : IsNumbered(RgLines[k])})

(***************************************************************************)
(* main.rs: the worker task spawned by main and Printer::message_loop.     *)
(* msgs is what the worker has sent, input is the queue of CHAN (sent and  *)
(* not yet received), result is what print was called with and where, ops  *)
(* holds the worker task, pc is the position of message_loop.              *)
(***************************************************************************)
MaxMessages == 3

\* the task behind the JoinHandle
WorkerTask(state) == <<[kind |-> "worker", state |-> state]>>

\* handle.is_finished()
is_finished == ops[1].state = "finished"

InitPrinter ==
    /\ MapIdle /\ ScanIdle
    /\ dry_run = FALSE /\ simulate_application = FALSE
    /\ requests = EmptyBag /\ applied = None
    /\ cfg = [singles |-> <<>>, multis |-> <<>>, borders |-> <<>>]
    /\ msgs = <<>>
    /\ input = <<>>
    /\ result = <<>>
    /\ ops = WorkerTask("running")
    /\ pc = "select"

\* Message::send in the worker: CHAN.0.try_send(self).unwrap() on the
\* unbounded channel
MessageSend ==
    /\ ~is_finished
    /\ Len(msgs) < MaxMessages
    /\ \E type \in {"FoundTodo", "Goodbye"} :
          /\ msgs' = Append(msgs, Msg(type))
          /\ input' = Append(input, Msg(type))
    /\ UNCHANGED <<mapVars, scanVars, pc, dry_run, simulate_application, ops, requests, applied>>
    /\ UNCHANGED <<cfg, result>>

\* the spawned future completes, by returning or by a panic
WorkerFinishes ==
    /\ ~is_finished
    /\ ops' = WorkerTask("finished")
    /\ UNCHANGED <<mapVars, scanVars, pc, dry_run, simulate_application, msgs, requests, applied>>
    /\ UNCHANGED parseVars

\* select!: recv.recv() is ready with the oldest message, which is printed
SelectGetMsg ==
    /\ pc = "select"
    /\ input # <<>>
    /\ result' = Append(result, [msg |-> Head(input), at |-> "select"])
    /\ input' = Tail(input)
    /\ pc' = "is_finished"
    /\ UNCHANGED <<mapVars, scanVars, dry_run, simulate_application, msgs, ops, requests, applied>>
    /\ UNCHANGED cfg

\* select!: the sleep of one second is over first; the recv future is
\* dropped and has taken no message
SelectTimeout ==
    /\ pc = "select"
    /\ pc' = "is_finished"
    /\ UNCHANGED <<mapVars, scanVars, dry_run, simulate_application, msgs, ops, requests, applied>>
    /\ UNCHANGED parseVars

\* if handle.is_finished() { break; }
BreakIfFinished ==
    /\ pc = "is_finished"
    /\ pc' = IF is_finished THEN "drain" ELSE "select"
    /\ UNCHANGED <<mapVars, scanVars, dry_run, simulate_application, msgs, ops, requests, applied>>
    /\ UNCHANGED parseVars

\* while let Ok(msg) = recv.try_recv() { self.print(msg); }
TryRecvOk ==
    /\ pc = "drain"
    /\ input # <<>>
    /\ result' = Append(result, [msg |-> Head(input), at |-> "drain"])
    /\ input' = Tail(input)
    /\ UNCHANGED <<mapVars, scanVars, pc, dry_run, simulate_application, msgs, ops, requests, applied>>
    /\ UNCHANGED cfg

\* a message_loop that returns at the break, without the try_recv loop
ReturnsAtBreak ==
    /\ pc = "drain"
    /\ pc' = "returned"
    /\ UNCHANGED <<mapVars, scanVars, dry_run, simulate_application, msgs, ops, requests, applied>>
    /\ UNCHANGED parseVars

\* try_recv returns Err(Empty): message_loop returns
TryRecvEmpty ==
    /\ pc = "drain"
    /\ input = <<>>
    /\ pc' = "returned"
    /\ UNCHANGED <<mapVars, scanVars, dry_run, simulate_application, msgs, ops, requests, applied>>
    /\ UNCHANGED parseVars

NextPrinter ==
    \/ MessageSend \/ WorkerFinishes
    \/ SelectGetMsg \/ SelectTimeout \/ BreakIfFinished \/ TryRecvOk \/ TryRecvEmpty

SpecPrinter == InitPrinter /\ [][NextPrinter]_vars

\* the messages that print was called with, in the order of the calls
Printed == [k \in 1..Len(result) |-> result[k].msg]

\* C30: in every interleaving of the worker and message_loop, the messages
\* printed followed by those still in the channel are the messages sent,
\* in the order sent: none is printed twice, out of order or lost; and when
\* message_loop has returned, the worker has finished and every message it
\* sent has been printed.
C30_EveryMessagePrintedOnce ==
    /\ Printed \o input = msgs
    /\ pc \in {"drain", "returned"} => is_finished
    /\ pc = "returned" => Printed = msgs

\* message_loop has returned after printing a message in its select and,
\* the worker having finished with messages still in the channel, the
\* others in its try_recv loop
C30_Witness ==
    /\ pc = "returned"
    /\ Len(msgs) = MaxMessages
    /\ \E k \in 1..Len(result) : result[k].at = "select"
    /\ \E k \in 1..Len(result) : result[k].at = "drain"

====
